---- MODULE Spec2Model ----
(***************************************************************************)
(* A model of the SBOM support analyzer (src/sbom_support_analyzer.py):    *)
(* the framework lifecycle matcher, the classification decision            *)
(* (_calculate_support_level) and the per-component resolution chain       *)
(* (analyze_component), one call of it per behaviour.  The framework       *)
(* lookup, the identifier resolver, the version matcher, the snapshot      *)
(* sources that read GitHub, the NuGet and PyPI clients, the request       *)
(* cache, the framework detection, the URL dispatch and the repository     *)
(* lookup also have a specification each, which applies them to inputs     *)
(* drawn in its Init.  SpecBatch follows analyze_sbom's loop over a bill   *)
(* of materials, and SpecLive follows one call of analyze_component to     *)
(* its end under the assumption that every network call returns.           *)
(*                                                                         *)
(* Encodings.                                                              *)
(*  - A Python str is a sequence of one-character strings, so that prefix, *)
(*    substring and split operations are computed as the code computes     *)
(*    them.                                                                *)
(*  - Optional[x] is a sequence of length at most one: None is <<>> and a  *)
(*    present value x is <<x>>.                                            *)
(*  - A datetime is an integer count of ticks since 1970-01-01T00:00Z,     *)
(*    TicksPerDay ticks to the day.  A 'YYYY-MM-DD' string is the number   *)
(*    of whole days since 1970-01-01; strftime drops the time of day and   *)
(*    strptime yields midnight.                                            *)
(***************************************************************************)
EXTENDS Integers, Sequences, FiniteSets, TLC

VARIABLES
    today,             \* ComponentAnalyzer.today
    product_eol_date,  \* ComponentAnalyzer.product_eol_date
    cache,             \* ComponentAnalyzer.cache: request URL -> decoded body
    component,         \* the component analyze_component was called with
    frame,             \* analyze_component's locals: purl_data, package_data,
                       \* urls_to_try (the candidates not yet tried), repo_data
    result,            \* what analyze_component returned, None before
    call,              \* the arguments and result of _calculate_support_level
    calls,             \* the calls made so far, in order: function, arguments,
                       \* what it returned and whether it raised
    batch,             \* analyze_sbom's locals: components, the index i of
                       \* enumerate, results
    steps,             \* the number of statements executed so far
    pc                 \* the statement analyze_component is at

vars == <<today, product_eol_date, cache, component, frame, result, call, calls, batch, steps, pc>>

----------------------------------------------------------------------------
(* Optional values *)

None == <<>>

Some(x) == <<x>>

IsSome(o) == Len(o) = 1

Get(o) == o[1]

----------------------------------------------------------------------------
(* Python str operations on character sequences *)

IsDigit(c) == c \in {"0", "1", "2", "3", "4", "5", "6", "7", "8", "9"}

Lower(c) ==
    CASE c = "A" -> "a" [] c = "B" -> "b" [] c = "C" -> "c" [] c = "D" -> "d"
      [] c = "E" -> "e" [] c = "F" -> "f" [] c = "G" -> "g" [] c = "H" -> "h"
      [] c = "I" -> "i" [] c = "J" -> "j" [] c = "K" -> "k" [] c = "L" -> "l"
      [] c = "M" -> "m" [] c = "N" -> "n" [] c = "O" -> "o" [] c = "P" -> "p"
      [] c = "Q" -> "q" [] c = "R" -> "r" [] c = "S" -> "s" [] c = "T" -> "t"
      [] c = "U" -> "u" [] c = "V" -> "v" [] c = "W" -> "w" [] c = "X" -> "x"
      [] c = "Y" -> "y" [] c = "Z" -> "z" [] OTHER -> c

\* str.lower()
LowerStr(s) == [i \in 1..Len(s) |-> Lower(s[i])]

\* s.startswith(p)
StartsWith(s, p) == Len(p) <= Len(s) /\ SubSeq(s, 1, Len(p)) = p

\* sub in s
Contains(sub, s) ==
    \E i \in 0..(Len(s) - Len(sub)) : SubSeq(s, i + 1, i + Len(sub)) = sub

\* the least element of a non-empty set of integers
Min(S) == CHOOSE x \in S : \A y \in S : x <= y

\* the number of leading decimal digits of s
LeadingDigits(s) ==
    IF \A i \in 1..Len(s) : IsDigit(s[i])
    THEN Len(s)
    ELSE Min({i \in 1..Len(s) : ~IsDigit(s[i])}) - 1

\* the position of the first occurrence of sub in s at or after position
\* from, 0 when there is none
IndexFrom(sub, s, from) ==
    LET hits == {i \in from..(Len(s) - Len(sub) + 1) : SubSeq(s, i, i + Len(sub) - 1) = sub}
    IN  IF hits = {} THEN 0 ELSE Min(hits)

\* the greatest element of a non-empty set of integers
Max(S) == CHOOSE x \in S : \A y \in S : x >= y

\* s.split(c), c one character
RECURSIVE Split(_, _)
Split(s, c) ==
    LET i == IndexFrom(<<c>>, s, 1)
    IN  IF i = 0 THEN <<s>>
        ELSE <<SubSeq(s, 1, i - 1)>> \o Split(SubSeq(s, i + 1, Len(s)), c)

\* s.rsplit(c, 1) for an s that contains c: <<before the last c, after it>>
RSplitOnce(s, c) ==
    LET i == Max({j \in 1..Len(s) : s[j] = c})
    IN  <<SubSeq(s, 1, i - 1), SubSeq(s, i + 1, Len(s))>>

\* s.replace(old, new), old not empty
RECURSIVE Replace(_, _, _)
Replace(s, old, new) ==
    LET i == IndexFrom(old, s, 1)
    IN  IF i = 0 THEN s
        ELSE SubSeq(s, 1, i - 1) \o new \o Replace(SubSeq(s, i + Len(old), Len(s)), old, new)

\* s.rstrip(c)
RECURSIVE RStrip(_, _)
RStrip(s, c) == IF Len(s) > 0 /\ s[Len(s)] = c THEN RStrip(SubSeq(s, 1, Len(s) - 1), c) ELSE s

\* s.lstrip(c)
RECURSIVE LStrip(_, _)
LStrip(s, c) == IF Len(s) > 0 /\ s[1] = c THEN LStrip(Tail(s), c) ELSE s

\* the length of the longest prefix of s made of characters outside stop
SpanOutside(s, stop) ==
    IF \A i \in 1..Len(s) : s[i] \notin stop
    THEN Len(s)
    ELSE Min({i \in 1..Len(s) : s[i] \in stop}) - 1

----------------------------------------------------------------------------
(* Dates *)

TicksPerDay == 2

\* datetime.strptime(s, '%Y-%m-%d').replace(tzinfo=utc): midnight of day s
ParseDate(day) == day * TicksPerDay

\* dt.strftime('%Y-%m-%d'): the day of the instant, time of day dropped
FormatDate(t) == t \div TicksPerDay

\* (a - b).days: whole days of the difference, rounded towards minus infinity
DaysBetween(a, b) == (a - b) \div TicksPerDay

\* The values of result['end_of_life']: a 'YYYY-MM-DD' string or a fixed text
DateString(day) == [kind |-> "date", day |-> day]

Text(s) == [kind |-> s, day |-> 0]

----------------------------------------------------------------------------
(* Framework lifecycle tables *)

Entry(k, eol, st) == [key |-> k, eol_date |-> eol, status |-> st]

\* FRAMEWORK_SUPPORT, each framework's entries in the dict's insertion order;
\* eol_date is the day number of the 'YYYY-MM-DD' string of the table.
FRAMEWORK_SUPPORT ==
    [dotnet |-> <<
        Entry(<<".", "N", "E", "T", " ", "9", ".", "0">>, 20585, "STS"),   \* 2026-05-12
        Entry(<<".", "N", "E", "T", " ", "8", ".", "0">>, 20767, "LTS"),   \* 2026-11-10
        Entry(<<".", "N", "E", "T", " ", "7", ".", "0">>, 19857, "EOL"),   \* 2024-05-14
        Entry(<<".", "N", "E", "T", " ", "6", ".", "0">>, 20039, "EOL"),   \* 2024-11-12
        Entry(<<".", "N", "E", "T", " ", "5", ".", "0">>, 19122, "EOL"),   \* 2022-05-10
        Entry(<<".", "N", "E", "T", " ", "C", "o", "r", "e", " ", "3", ".", "1">>, 19339, "EOL"),  \* 2022-12-13
        Entry(<<".", "N", "E", "T", " ", "C", "o", "r", "e", " ", "3", ".", "0">>, 18324, "EOL"),  \* 2020-03-03
        Entry(<<".", "N", "E", "T", " ", "C", "o", "r", "e", " ", "2", ".", "1">>, 18860, "EOL"),  \* 2021-08-21
        Entry(<<".", "N", "E", "T", " ", "F", "r", "a", "m", "e", "w", "o", "r", "k", " ", "4", ".", "8">>, 21194, "LTS"),  \* 2028-01-11
        Entry(<<".", "N", "E", "T", " ", "F", "r", "a", "m", "e", "w", "o", "r", "k", " ", "4", ".", "7">>, 21194, "LTS"),
        Entry(<<".", "N", "E", "T", " ", "F", "r", "a", "m", "e", "w", "o", "r", "k", " ", "4", ".", "6">>, 21194, "LTS") >>,
     java |-> <<
        Entry(<<"J", "a", "v", "a", " ", "2", "1">>, 22523, "LTS"),        \* 2031-09-01
        Entry(<<"J", "a", "v", "a", " ", "1", "7">>, 21793, "LTS"),        \* 2029-09-01
        Entry(<<"J", "a", "v", "a", " ", "1", "1">>, 20697, "LTS"),        \* 2026-09-01
        Entry(<<"J", "a", "v", "a", " ", "8">>, 22249, "LTS"),             \* 2030-12-01
        Entry(<<"J", "a", "v", "a", " ", "7">>, 19174, "EOL"),             \* 2022-07-01
        Entry(<<"J", "a", "v", "a", " ", "6">>, 17866, "EOL") >>,          \* 2018-12-01
     python |-> <<
        Entry(<<"P", "y", "t", "h", "o", "n", " ", "3", ".", "1", "3">>, 21823, "Active"),    \* 2029-10-01
        Entry(<<"P", "y", "t", "h", "o", "n", " ", "3", ".", "1", "2">>, 21458, "Active"),    \* 2028-10-01
        Entry(<<"P", "y", "t", "h", "o", "n", " ", "3", ".", "1", "1">>, 21092, "Active"),    \* 2027-10-01
        Entry(<<"P", "y", "t", "h", "o", "n", " ", "3", ".", "1", "0">>, 20727, "Active"),    \* 2026-10-01
        Entry(<<"P", "y", "t", "h", "o", "n", " ", "3", ".", "9">>, 20362, "Security"),       \* 2025-10-01
        Entry(<<"P", "y", "t", "h", "o", "n", " ", "3", ".", "8">>, 19997, "EOL"),            \* 2024-10-01
        Entry(<<"P", "y", "t", "h", "o", "n", " ", "3", ".", "7">>, 19535, "EOL"),            \* 2023-06-27
        Entry(<<"P", "y", "t", "h", "o", "n", " ", "3", ".", "6">>, 18984, "EOL"),            \* 2021-12-23
        Entry(<<"P", "y", "t", "h", "o", "n", " ", "2", ".", "7">>, 18262, "EOL") >>,         \* 2020-01-01
     nodejs |-> <<
        Entry(<<"N", "o", "d", "e", ".", "j", "s", " ", "2", "2">>, 20938, "LTS"),   \* 2027-04-30
        Entry(<<"N", "o", "d", "e", ".", "j", "s", " ", "2", "0">>, 20573, "LTS"),   \* 2026-04-30
        Entry(<<"N", "o", "d", "e", ".", "j", "s", " ", "1", "8">>, 20208, "LTS"),   \* 2025-04-30
        Entry(<<"N", "o", "d", "e", ".", "j", "s", " ", "1", "6">>, 19611, "EOL"),   \* 2023-09-11
        Entry(<<"N", "o", "d", "e", ".", "j", "s", " ", "1", "4">>, 19477, "EOL"),   \* 2023-04-30
        Entry(<<"N", "o", "d", "e", ".", "j", "s", " ", "1", "2">>, 19112, "EOL") >>,  \* 2022-04-30
     spring |-> <<
        Entry(<<"S", "p", "r", "i", "n", "g", " ", "B", "o", "o", "t", " ", "3", ".", "x">>, 20393, "Active"),  \* 2025-11-01
        Entry(<<"S", "p", "r", "i", "n", "g", " ", "B", "o", "o", "t", " ", "2", ".", "x">>, 19685, "EOL"),     \* 2023-11-24
        Entry(<<"S", "p", "r", "i", "n", "g", " ", "F", "r", "a", "m", "e", "w", "o", "r", "k", " ", "6", ".", "x">>, 20788, "Active"),  \* 2026-12-01
        Entry(<<"S", "p", "r", "i", "n", "g", " ", "F", "r", "a", "m", "e", "w", "o", "r", "k", " ", "5", ".", "x">>, 20088, "EOL") >> ]  \* 2024-12-31

\* A name regex of FRAMEWORK_PATTERNS: ^literal, or ^literal$ when exact
Pat(l, e) == [lit |-> l, exact |-> e]

\* FRAMEWORK_PATTERNS in the dict's insertion order
FRAMEWORK_PATTERNS == <<
    [framework |-> "dotnet", patterns |-> <<
        Pat(<<"S", "y", "s", "t", "e", "m", ".">>, FALSE),
        Pat(<<"M", "i", "c", "r", "o", "s", "o", "f", "t", ".", "N", "E", "T", "C", "o", "r", "e", ".">>, FALSE),
        Pat(<<"M", "i", "c", "r", "o", "s", "o", "f", "t", ".", "E", "x", "t", "e", "n", "s", "i", "o", "n", "s", ".">>, FALSE),
        Pat(<<"r", "u", "n", "t", "i", "m", "e", ".", "n", "a", "t", "i", "v", "e", ".">>, FALSE),
        Pat(<<"r", "u", "n", "t", "i", "m", "e", ".">>, FALSE),
        Pat(<<"N", "E", "T", "S", "t", "a", "n", "d", "a", "r", "d", ".", "L", "i", "b", "r", "a", "r", "y">>, TRUE) >>],
    [framework |-> "java", patterns |-> <<
        Pat(<<"j", "a", "v", "a", ".">>, FALSE),
        Pat(<<"j", "a", "v", "a", "x", ".">>, FALSE),
        Pat(<<"j", "a", "k", "a", "r", "t", "a", ".">>, FALSE) >>],
    [framework |-> "python", patterns |-> <<
        Pat(<<"p", "y", "t", "h", "o", "n">>, TRUE),
        Pat(<<"c", "p", "y", "t", "h", "o", "n">>, TRUE) >>],
    [framework |-> "nodejs", patterns |-> <<
        Pat(<<"n", "o", "d", "e">>, TRUE),
        Pat(<<"n", "o", "d", "e", "j", "s">>, TRUE) >>],
    [framework |-> "spring", patterns |-> <<
        Pat(<<"s", "p", "r", "i", "n", "g", "-">>, FALSE),
        Pat(<<"o", "r", "g", ".", "s", "p", "r", "i", "n", "g", "f", "r", "a", "m", "e", "w", "o", "r", "k", ".">>, FALSE) >>] >>

\* re.match(pattern, name, re.IGNORECASE)
PatternMatches(p, name) ==
    /\ StartsWith(LowerStr(name), LowerStr(p.lit))
    /\ p.exact => Len(name) = Len(p.lit)

----------------------------------------------------------------------------
(* Framework lifecycle matcher *)

\* DetectFramework from the pattern table alone, without the ecosystem hint
DetectFramework_PatternsOnly(name, ecosystem) ==
    LET hits == {i \in 1..Len(FRAMEWORK_PATTERNS) :
                    \E j \in 1..Len(FRAMEWORK_PATTERNS[i].patterns) :
                        PatternMatches(FRAMEWORK_PATTERNS[i].patterns[j], name)}
    IN  IF hits # {} THEN Some(FRAMEWORK_PATTERNS[Min(hits)].framework) ELSE None

\* _detect_framework: Some(framework key) or None
DetectFramework(name, ecosystem) ==
    LET hits == {i \in 1..Len(FRAMEWORK_PATTERNS) :
                    \E j \in 1..Len(FRAMEWORK_PATTERNS[i].patterns) :
                        PatternMatches(FRAMEWORK_PATTERNS[i].patterns[j], name)}
    IN  IF hits # {}
        THEN Some(FRAMEWORK_PATTERNS[Min(hits)].framework)
        ELSE IF /\ ecosystem = Some(<<"n", "u", "g", "e", "t">>)
                /\ \/ StartsWith(name, <<"S", "y", "s", "t", "e", "m", ".">>)
                   \/ StartsWith(name, <<"M", "i", "c", "r", "o", "s", "o", "f", "t", ".">>)
                   \/ StartsWith(name, <<"r", "u", "n", "t", "i", "m", "e", ".">>)
             THEN Some("dotnet")
             ELSE None

\* the positions of the entries whose key contains sub
KeysContaining(entries, sub) == {i \in 1..Len(entries) : Contains(sub, entries[i].key)}

\* The first of the entries at the positions hits, in the table's insertion
\* order, as Some(<<eol_date, status>>), or None
FirstEntry(entries, hits) ==
    IF hits = {} THEN None
    ELSE Some(<<entries[Min(hits)].eol_date, entries[Min(hits)].status>>)

DotNetPrefix == <<".", "N", "E", "T", " ">>

\* VersionLookup without the .NET inference: direct matching only
VersionLookup_DirectOnly(framework_versions, framework, version) ==
    FirstEntry(framework_versions, KeysContaining(framework_versions, version))

\* the lookup of version among one framework's entries
VersionLookup(framework_versions, framework, version) ==
    LET \* re.match(r'^(\d+)\.(\d+)', version)
        n == LeadingDigits(version)
        rest == SubSeq(version, n + 2, Len(version))
        m == LeadingDigits(rest)
        version_match == /\ n >= 1
                         /\ Len(version) > n
                         /\ version[n + 1] = "."
                         /\ m >= 1
        major == SubSeq(version, 1, n)
        minor == SubSeq(rest, 1, m)
        \* "Try exact match first": either containment returns
        first == FirstEntry(framework_versions,
                    KeysContaining(framework_versions, DotNetPrefix \o major \o <<".">> \o minor)
                    \cup KeysContaining(framework_versions, DotNetPrefix \o major))
        \* "Try without minor version"
        second == FirstEntry(framework_versions,
                    KeysContaining(framework_versions, DotNetPrefix \o major))
    IN  IF framework = "dotnet" /\ version_match /\ IsSome(first) THEN first
        ELSE IF framework = "dotnet" /\ version_match /\ IsSome(second) THEN second
        ELSE FirstEntry(framework_versions, KeysContaining(framework_versions, version))

\* _get_framework_support: Some(<<eol_date, status>>) or None
GetFrameworkSupport(framework, version) ==
    IF framework \notin DOMAIN FRAMEWORK_SUPPORT THEN None
    ELSE VersionLookup(FRAMEWORK_SUPPORT[framework], framework, version)

\* IsFrameworkSupported with the end-of-life instant itself still supported
\* (>= for >)
IsFrameworkSupported_EolInclusive(framework, version, now) ==
    LET support_info == GetFrameworkSupport(framework, version)
    IN  IF ~IsSome(support_info) THEN None
        ELSE LET eol_date_str == Get(support_info)[1]
                 support_status == Get(support_info)[2]
                 eol_date == ParseDate(eol_date_str)
             IN  Some([is_supported |-> eol_date >= now /\ support_status # "EOL",
                       eol_date |-> eol_date_str,
                       support_status |-> support_status])

\* the support status of a lifecycle entry at the instant now
SupportAt(support_info, now) ==
    IF ~IsSome(support_info) THEN None
    ELSE Some([is_supported |-> ParseDate(Get(support_info)[1]) > now /\ Get(support_info)[2] # "EOL",
               eol_date |-> Get(support_info)[1],
               support_status |-> Get(support_info)[2]])

\* _is_framework_supported: Some([is_supported, eol_date, support_status]) or
\* None.  Every eol_date of the table parses, so the except branch is not taken.
IsFrameworkSupported(framework, version, now) ==
    SupportAt(GetFrameworkSupport(framework, version), now)

----------------------------------------------------------------------------
(* Identifier resolver *)

PkgScheme == <<"p", "k", "g", ":">>

\* _parse_purl: Some([ecosystem, namespace, name, version]) or None.  No
\* statement of the try block raises on a str, so the except branch is not
\* taken.
ParsePurl(purl) ==
    IF purl = <<>> \/ ~StartsWith(purl, PkgScheme) THEN None
    ELSE
    LET body == SubSeq(purl, 5, Len(purl))
        parts == Split(body, "/")
        ecosystem == parts[1]
        namespace == IF Len(parts) > 2 THEN Some(parts[2]) ELSE None
        name_version == IF Len(parts) > 2 THEN parts[3]
                        ELSE IF Len(parts) > 1 THEN parts[2] ELSE parts[1]
        has_at == Contains(<<"@">>, name_version)
        name0 == IF has_at THEN RSplitOnce(name_version, "@")[1] ELSE name_version
        version0 == IF has_at THEN Some(RSplitOnce(name_version, "@")[2]) ELSE None
        name == IF Contains(<<"?">>, name0) THEN Split(name0, "?")[1] ELSE name0
        version == IF IsSome(version0) /\ Get(version0) # <<>> /\ Contains(<<"?">>, Get(version0))
                   THEN Some(Split(Get(version0), "?")[1])
                   ELSE version0
    IN  Some([ecosystem |-> ecosystem, namespace |-> namespace,
              name |-> name, version |-> version])

----------------------------------------------------------------------------
(* Snapshots and HTTP responses *)

PackageData(ok, d, dep, url) ==
    [success |-> ok, latest_date |-> d, deprecated |-> dep, repo_url |-> url]

\* {'success': False}
Failure == PackageData(FALSE, None, FALSE, None)

RepoData(arch, d, owner, repo) ==
    [archived |-> arch, last_commit_date |-> d, owner |-> owner, repo |-> repo]

\* A response body as _make_request returns it: NoBody is None (the request
\* failed); a list body carries its items; an object body carries the fields
\* its reader looks up.
NoBody == [kind |-> "none"]

ListBody(items) == [kind |-> "list", items |-> items]

\* bool(data): None and the empty list are false
Truthy(data) == data.kind = "object" \/ (data.kind = "list" /\ data.items # <<>>)

\* MakeRequest with the cache refreshed: the upstream is asked every time
\* and its answer replaces the stored body
MakeRequest_Refresh(c, url, answer) ==
    IF answer = NoBody THEN [data |-> IF url \in DOMAIN c THEN c[url] ELSE NoBody, cache |-> c]
    ELSE [data |-> answer, cache |-> (url :> answer) @@ c]

\* _make_request with use_cache set: the cached body when the URL is cached;
\* otherwise the upstream's answer, stored under the URL unless the request
\* failed.  Returns the body and the cache afterwards.
MakeRequest(c, url, answer) ==
    IF url \in DOMAIN c THEN [data |-> c[url], cache |-> c]
    ELSE IF answer = NoBody THEN [data |-> NoBody, cache |-> c]
    ELSE [data |-> answer, cache |-> (url :> answer) @@ c]

----------------------------------------------------------------------------
(* Repository activity client (GitHub) *)

\* A request URL is its fixed text, kept as one element, joined with the
\* characters filled in.
GithubCom == <<"g", "i", "t", "h", "u", "b", ".", "c", "o", "m">>

DotGit == <<".", "g", "i", "t">>

\* the characters the class [^/\s?#] excludes
RepoStop == {"/", " ", "?", "#"}

\* re.search(r'github\.com[/:]([^/]+)/([^/\s?#]+)', repo_url): Some(<<owner,
\* repo>>) of the leftmost match, or None
GithubRepoMatch(url) ==
    LET matchAt(i) ==
            /\ SubSeq(url, i, i + 9) = GithubCom
            /\ i + 10 <= Len(url)
            /\ url[i + 10] \in {"/", ":"}
            /\ LET rest == SubSeq(url, i + 11, Len(url))
                   n == SpanOutside(rest, {"/"})
               IN  /\ n >= 1
                   /\ n < Len(rest)
                   /\ SpanOutside(SubSeq(rest, n + 2, Len(rest)), RepoStop) >= 1
        starts == {i \in 1..(Len(url) - 9) : matchAt(i)}
    IN  IF starts = {} THEN None
        ELSE LET i == Min(starts)
                 rest == SubSeq(url, i + 11, Len(url))
                 n == SpanOutside(rest, {"/"})
                 after == SubSeq(rest, n + 2, Len(rest))
             IN  Some(<<SubSeq(rest, 1, n), SubSeq(after, 1, SpanOutside(after, RepoStop))>>)

\* f"https://api.github.com/repos/{owner}/{repo}"
GithubApiUrl(owner, repo) == <<"https://api.github.com/repos/">> \o owner \o <<"/">> \o repo

\* GET /repos/{owner}/{repo}: the fields read are archived (and the counters,
\* which no verdict depends on)
GithubRepoBody(archived) == [kind |-> "object", archived |-> archived]

\* GET .../commits: a list of commits, each with its committer date
CommitItem(date) == [date |-> date]

\* the snapshot _get_github_repo_info builds from the two bodies: None when
\* the repository body is no object (.get raises into the except branch)
RepoInfoFrom(repo_body, commits_body, owner, repo) ==
    IF repo_body.kind # "object" THEN None
    ELSE Some(RepoData(repo_body.archived,
                       IF commits_body.kind = "list" /\ Len(commits_body.items) > 0
                       THEN commits_body.items[1].date
                       ELSE None,
                       owner, repo))

\* the two requests of _get_github_repo_info; the commits are not asked for
\* when the repository request gave nothing
RepoInfoAt(c, owner, repo, net) ==
    LET r1 == MakeRequest(c, GithubApiUrl(owner, repo), net.repo)
        r2 == MakeRequest(r1.cache, GithubApiUrl(owner, repo) \o <<"/commits">>, net.commits)
    IN  IF ~Truthy(r1.data) THEN [ret |-> None, cache |-> r1.cache]
        ELSE [ret |-> RepoInfoFrom(r1.data, r2.data, owner, repo), cache |-> r2.cache]

\* _get_github_repo_info after the regex: the repo name is cleaned by
\* repo.rstrip('/').replace('.git', '')
RepoInfoOfMatch(c, match, net) ==
    IF ~IsSome(match) THEN [ret |-> None, cache |-> c]
    ELSE RepoInfoAt(c, Get(match)[1], Replace(RStrip(Get(match)[2], "/"), DotGit, <<>>), net)

\* _get_github_repo_info under the answers net.repo and net.commits of the
\* upstream: [ret |-> Some(RepoData) or None, cache |-> the cache afterwards]
GetGithubRepoInfo(c, repo_url, net) == RepoInfoOfMatch(c, GithubRepoMatch(repo_url), net)

----------------------------------------------------------------------------
(* Version-release matcher (GitHub) *)

\* the number of occurrences of the character c in s
Count(s, c) == Cardinality({i \in 1..Len(s) : s[i] = c})

\* the first whitespace-separated part of version that holds a digit, version
\* itself when it has no space or no such part
NumericVersion(version) ==
    LET parts == Split(version, " ")
        hits == {i \in 1..Len(parts) : \E j \in 1..Len(parts[i]) : IsDigit(parts[i][j])}
    IN  IF Contains(<<" ">>, version) /\ hits # {} THEN parts[Min(hits)] ELSE version

\* version_patterns
VersionPatterns(version) ==
    << version,
       <<"v">> \o version,
       NumericVersion(version),
       <<"v">> \o NumericVersion(version),
       Replace(version, <<" ">>, <<"_">>),
       Replace(version, <<" ">>, <<"-">>),
       IF Count(version, ".") = 1 THEN version \o <<".", "0">> ELSE version,
       IF Contains(<<"-">>, version) THEN Split(version, "-")[1] ELSE version >>

\* the test of one pattern against a release's lower-cased tag and name
PatternHitsRelease(pattern, tag_name, release_name) ==
    LET pattern_lower == LowerStr(pattern)
    IN  \/ Contains(pattern_lower, tag_name)
        \/ pattern_lower = LStrip(tag_name, "v")
        \/ Contains(pattern_lower, release_name)
        \/ Replace(tag_name, <<"_">>, <<" ">>) = pattern_lower
        \/ Replace(tag_name, <<"-">>, <<" ">>) = pattern_lower

\* the test of one pattern against a tag's lower-cased name
PatternHitsTag(pattern, tag_name) ==
    LET pattern_lower == LowerStr(pattern)
    IN  \/ Contains(pattern_lower, tag_name)
        \/ pattern_lower = LStrip(tag_name, "v")
        \/ Replace(tag_name, <<"_">>, <<" ">>) = pattern_lower
        \/ Replace(tag_name, <<"-">>, <<" ">>) = pattern_lower

\* GET .../releases item: tag_name, name (null on an untitled release) and
\* published_at (null on a draft)
Release(tag_name, name, published_at) ==
    [tag_name |-> tag_name, name |-> name, published_at |-> published_at]

\* GET .../tags item: name and commit.sha (None when absent)
Tag(name, sha) == [name |-> name, sha |-> sha]

\* GET .../commits/{sha}: the committer date
CommitBody(date) == [kind |-> "object", date |-> date]

\* whether some pattern hits release i, which has a name and a publish date
ReleaseHit(releases, i, patterns) ==
    /\ IsSome(releases[i].name)
    /\ IsSome(releases[i].published_at)
    /\ \E k \in 1..Len(patterns) :
          PatternHitsRelease(patterns[k], LowerStr(releases[i].tag_name), LowerStr(Get(releases[i].name)))

\* the outcome of the scan, from the positions of the hits and of the
\* releases with a null name
ScanOutcome(releases, hits, nulls) ==
    IF hits # {} /\ (nulls = {} \/ Min(hits) < Min(nulls))
    THEN [kind |-> "date", date |-> releases[Min(hits)].published_at]
    ELSE IF nulls # {} THEN [kind |-> "raise", date |-> None]
    ELSE [kind |-> "none", date |-> None]

\* The scan of the releases list: "date" with the first release, in the
\* list's order, that some pattern hits and that has a publish date; "raise"
\* when a release with a null name is reached first (None.lower()); "none"
\* otherwise.
ScanReleases(releases, patterns) ==
    ScanOutcome(releases,
                {i \in 1..Len(releases) : ReleaseHit(releases, i, patterns)},
                {i \in 1..Len(releases) : ~IsSome(releases[i].name)})

\* The scan of the tags list from position i on: the commit date of the first
\* tag that some pattern hits, that names a commit and whose commit lookup
\* gives a date.  A commit body that is no object makes .get raise.  Within
\* one scan the upstream answers a commit URL the same way each time.
RECURSIVE ScanTags(_, _, _, _, _, _)
ScanTags(c, tags, i, patterns, api_url, net) ==
    IF i > Len(tags) THEN [ret |-> None, cache |-> c]
    ELSE IF \/ \A k \in 1..Len(patterns) : ~PatternHitsTag(patterns[k], LowerStr(tags[i].name))
            \/ ~IsSome(tags[i].sha)
    THEN ScanTags(c, tags, i + 1, patterns, api_url, net)
    ELSE
    LET r == MakeRequest(c, api_url \o <<"/commits/">> \o Get(tags[i].sha), net.commit[Get(tags[i].sha)])
    IN  IF ~Truthy(r.data) THEN ScanTags(r.cache, tags, i + 1, patterns, api_url, net)
        ELSE IF r.data.kind # "object" THEN [ret |-> None, cache |-> r.cache]
        ELSE IF IsSome(r.data.date) THEN [ret |-> r.data.date, cache |-> r.cache]
        ELSE ScanTags(r.cache, tags, i + 1, patterns, api_url, net)

\* the tags request and the scan of its list
TagsLookup(r2, patterns, api_url, net) ==
    IF Truthy(r2.data) /\ r2.data.kind = "list"
    THEN ScanTags(r2.cache, r2.data.items, 1, patterns, api_url, net)
    ELSE [ret |-> None, cache |-> r2.cache]

\* after the scan of the releases list: its date, None when it raised, else
\* the tags
AfterReleases(scan, c, patterns, api_url, net) ==
    IF scan.kind = "date" THEN [ret |-> scan.date, cache |-> c]
    ELSE IF scan.kind = "raise" THEN [ret |-> None, cache |-> c]
    ELSE TagsLookup(MakeRequest(c, api_url \o <<"/tags">>, net.tags), patterns, api_url, net)

\* version_patterns is bound only inside the releases block: after a releases
\* answer that is not a non-empty list, a non-empty tags list raises NameError
\* at its first tag and an empty or failed one gives nothing; the except
\* branch makes both None.
TagsWithoutPatterns(r2) == [ret |-> None, cache |-> r2.cache]

\* the releases block, then the tags block
ReleasesThenTags(r1, patterns, api_url, net) ==
    IF Truthy(r1.data) /\ r1.data.kind = "list"
    THEN AfterReleases(ScanReleases(r1.data.items, patterns), r1.cache, patterns, api_url, net)
    ELSE TagsWithoutPatterns(MakeRequest(r1.cache, api_url \o <<"/tags">>, net.tags))

\* _get_github_release_for_version under the answers net.releases, net.tags
\* and net.commit: [ret |-> Some(date) or None, cache |-> the cache afterwards]
GetGithubReleaseForVersion(c, owner, repo, version, net) ==
    ReleasesThenTags(MakeRequest(c, GithubApiUrl(owner, repo) \o <<"/releases">>, net.releases),
                     VersionPatterns(version), GithubApiUrl(owner, repo), net)

----------------------------------------------------------------------------
(* Registry clients *)

\* What a client hands back: the snapshot, the cache afterwards, and whether
\* an exception left the client instead of a return value.
Returns(package_data, c) == [ret |-> package_data, cache |-> c, raised |-> FALSE]

Raises(c) == [ret |-> Failure, cache |-> c, raised |-> TRUE]

\* dict.get(key) on a dict modelled as a function: None for a missing key
Lookup(dict, key) == IF key \in DOMAIN dict THEN Some(dict[key]) ELSE None

\* a or b on two optional values
OrElse(a, b) == IF IsSome(a) THEN a ELSE b

\* The 'published' of an unlisted NuGet package: 1900-01-01 as a day number
NugetUnlistedDay == 0 - 25567

\* One entry of a NuGet registration page: the catalogEntry's version,
\* published, deprecation, projectUrl and licenseUrl, and the entry's
\* commitTimeStamp
NugetItem(version, published, deprecation, commitTimeStamp, projectUrl, licenseUrl) ==
    [version |-> version, published |-> published, deprecation |-> deprecation,
     commitTimeStamp |-> commitTimeStamp, projectUrl |-> projectUrl, licenseUrl |-> licenseUrl]

\* One page of the registration index: its items inline, or the @id to
\* fetch them from
NugetPage(items, id) == [items |-> items, id |-> id]

NugetBody(pages) == [kind |-> "object", items |-> pages]

\* The entries of the pages from position i on, in order, fetching the pages
\* that are not inline.  A fetched page that is a list makes .get raise.
RECURSIVE NugetEntries(_, _, _, _)
NugetEntries(c, pages, i, net) ==
    IF i > Len(pages) THEN [items |-> <<>>, cache |-> c, raised |-> FALSE]
    ELSE
    LET page == pages[i]
        r == IF IsSome(page.items) \/ ~IsSome(page.id)
             THEN [data |-> NoBody, cache |-> c]
             ELSE MakeRequest(c, Get(page.id), net.page[Get(page.id)])
        here == IF IsSome(page.items) THEN Get(page.items)
                ELSE IF Truthy(r.data) /\ r.data.kind = "object" THEN r.data.items
                ELSE <<>>
        rest == NugetEntries(r.cache, pages, i + 1, net)
    IN  IF ~IsSome(page.items) /\ Truthy(r.data) /\ r.data.kind # "object"
        THEN [items |-> <<>>, cache |-> r.cache, raised |-> TRUE]
        ELSE [items |-> here \o rest.items, cache |-> rest.cache, raised |-> rest.raised]

\* NugetPublished with the sentinel kept: the commitTimeStamp is not read
NugetPublished_KeepSentinel(item) == item.published

\* The published instant the code records for an entry: the commitTimeStamp
\* in place of the 1900-01-01 sentinel when the entry has one
NugetPublished(item) ==
    IF IsSome(item.published) /\ FormatDate(Get(item.published)) = NugetUnlistedDay
       /\ IsSome(item.commitTimeStamp)
    THEN item.commitTimeStamp
    ELSE item.published

\* the sort key x['published'] if x['published'] else '': an absent date
\* sorts below every date
PublishedKey(published) == IF IsSome(published) THEN Get(published) ELSE NugetUnlistedDay * TicksPerDay - 1

\* _analyze_nuget_package under the answers net.nuget and net.page
AnalyzeNugetPackage(c, name, version, net) ==
    LET base_url == <<"https://api.nuget.org/v3/registration5-semver1/">> \o LowerStr(name) \o <<"/index.json">>
        r == MakeRequest(c, base_url, net.nuget)
    IN  IF ~Truthy(r.data) THEN Returns(Failure, r.cache)
        ELSE IF r.data.kind # "object" THEN Raises(r.cache)
        ELSE
        LET entries == NugetEntries(r.cache, r.data.items, 1, net)
            items == entries.items
            n == Len(items)
            matching == {i \in 1..n : items[i].version = Some(version)}
            key(i) == PublishedKey(NugetPublished(items[i]))
            \* sorted(..., reverse=True) is stable: the first of the greatest
            newest == Min({i \in 1..n : \A j \in 1..n : key(j) <= key(i)})
            target == IF matching # {} THEN Max(matching) ELSE newest
            with_url == {i \in 1..n : IsSome(OrElse(items[i].projectUrl, items[i].licenseUrl))}
            repo_url == IF with_url = {} THEN None
                        ELSE OrElse(items[Min(with_url)].projectUrl, items[Min(with_url)].licenseUrl)
        IN  IF entries.raised THEN Raises(entries.cache)
            ELSE IF n = 0 THEN Returns(Failure, entries.cache)
            ELSE Returns(PackageData(TRUE, NugetPublished(items[target]),
                                     items[target].deprecation, repo_url), entries.cache)

\* The npm packument: time maps versions to publish instants, versions maps
\* versions to their repository URL and deprecation mark, latest is
\* dist-tags.latest
NpmBody(time, versions, latest) ==
    [kind |-> "object", time |-> time, versions |-> versions, latest |-> latest]

NpmVersion(repository, deprecated) == [repository |-> repository, deprecated |-> deprecated]

\* _analyze_npm_package under the answer net.npm.  The publish instant is cut
\* at 'T': the snapshot's date is midnight of the publish day.
AnalyzeNpmPackage(c, name, version, net) ==
    LET url == <<"https://registry.npmjs.org/">> \o name
        r == MakeRequest(c, url, net.npm)
        data == r.data
    IN  IF ~Truthy(data) THEN Returns(Failure, r.cache)
        ELSE IF data.kind # "object" THEN Raises(r.cache)
        ELSE
        LET target_version == IF version \in DOMAIN data.versions THEN Some(version) ELSE data.latest
            target_time == IF IsSome(target_version) THEN Lookup(data.time, Get(target_version)) ELSE None
            latest_date == IF IsSome(target_time) THEN Some(ParseDate(FormatDate(Get(target_time)))) ELSE None
            known == IsSome(target_version) /\ Get(target_version) \in DOMAIN data.versions
            repo_url == IF known THEN data.versions[Get(target_version)].repository ELSE None
            deprecated == known /\ data.versions[Get(target_version)].deprecated
        IN  Returns(PackageData(TRUE, latest_date, deprecated, repo_url), r.cache)

\* The PyPI project JSON: releases maps versions to the upload instants of
\* their files, version is info.version, the three URLs are those of
\* info.project_urls
PypiBody(releases, version, source, repository, homepage) ==
    [kind |-> "object", releases |-> releases, version |-> version,
     Source |-> source, Repository |-> repository, Homepage |-> homepage]

\* _analyze_pypi_package under the answer net.pypi
AnalyzePypiPackage(c, name, version, net) ==
    LET url == <<"https://pypi.org/pypi/">> \o name \o <<"/json">>
        r == MakeRequest(c, url, net.pypi)
        data == r.data
    IN  IF ~Truthy(data) THEN Returns(Failure, r.cache)
        ELSE IF data.kind # "object" THEN Raises(r.cache)
        ELSE
        LET target_version == IF version \in DOMAIN data.releases THEN Some(version) ELSE data.version
            release_files == IF IsSome(target_version) /\ Get(target_version) \in DOMAIN data.releases
                             THEN data.releases[Get(target_version)]
                             ELSE <<>>
            latest_date == IF Len(release_files) > 0 THEN release_files[1] ELSE None
            repo_url == OrElse(data.Source, OrElse(data.Repository, data.Homepage))
        IN  Returns(PackageData(TRUE, latest_date, FALSE, repo_url), r.cache)

\* The Maven Central search answer: response is absent or holds numFound and,
\* unless the field is missing, docs, each doc with its timestamp
MavenBody(response) == [kind |-> "object", response |-> response]

MavenResponse(numFound, docs) == [numFound |-> numFound, docs |-> docs]

\* _analyze_maven_package under the answer net.maven.  data['response']['docs']
\* raises KeyError when numFound is not 0 and docs is missing.
AnalyzeMavenPackage(c, group_id, artifact_id, version, net) ==
    LET url == <<"https://search.maven.org/solrsearch/select?q=g:">> \o group_id
               \o <<"+AND+a:">> \o artifact_id \o <<"&rows=20&wt=json">>
        r == MakeRequest(c, url, net.maven)
        data == r.data
    IN  IF ~Truthy(data) THEN Returns(Failure, r.cache)
        ELSE IF data.kind # "object" THEN Raises(r.cache)
        ELSE IF ~IsSome(data.response) \/ Get(data.response).numFound = 0 THEN Returns(Failure, r.cache)
        ELSE IF ~IsSome(Get(data.response).docs) THEN Raises(r.cache)
        ELSE
        LET docs == Get(Get(data.response).docs)
        IN  IF docs = <<>> THEN Returns(Failure, r.cache)
            ELSE Returns(PackageData(TRUE, docs[1].timestamp, FALSE, None), r.cache)

\* The CocoaPods trunk answer: versions with their created_at, newest first,
\* source.git, source.http and the deprecated mark
CocoapodsBody(versions, git, http, deprecated) ==
    [kind |-> "object", versions |-> versions, git |-> git, http |-> http, deprecated |-> deprecated]

\* _analyze_cocoapods_package under the answer net.cocoapods
AnalyzeCocoapodsPackage(c, name, version, net) ==
    LET url == <<"https://trunk.cocoapods.org/api/v1/pods/">> \o name
        r == MakeRequest(c, url, net.cocoapods)
        data == r.data
    IN  IF ~Truthy(data) THEN Returns(Failure, r.cache)
        ELSE IF data.kind # "object" THEN Raises(r.cache)
        ELSE IF data.versions = <<>> THEN Returns(Failure, r.cache)
        ELSE Returns(PackageData(TRUE, data.versions[1].created_at, data.deprecated,
                                 OrElse(data.git, data.http)), r.cache)

----------------------------------------------------------------------------
(* URL fallback *)

\* The position of the leftmost occurrence of the literal lit in url that n
\* non-empty path segments follow, 0 when there is none
SegsStart(url, lit, n) ==
    LET segs(i) == Split(SubSeq(url, i + Len(lit), Len(url)), "/")
        matchAt(i) == /\ SubSeq(url, i, i + Len(lit) - 1) = lit
                      /\ Len(segs(i)) >= n
                      /\ \A k \in 1..n : segs(i)[k] # <<>>
        starts == {i \in 1..(Len(url) - Len(lit) + 1) : matchAt(i)}
    IN  IF starts = {} THEN 0 ELSE Min(starts)

\* re.search(lit + '([^/]+)' + '/([^/]+)' * (n - 1), url) for a literal lit:
\* Some(the n segments after the leftmost match), or None
LitThenSegs(url, lit, n) ==
    LET i == SegsStart(url, lit, n)
    IN  IF i = 0 THEN None
        ELSE Some(SubSeq(Split(SubSeq(url, i + Len(lit), Len(url)), "/"), 1, n))

\* re.search(r'([^/]+)/([^/]+)/([^/]+)', url): Some(the first three
\* consecutive non-empty segments of url), or None
ThreeSegs(url) ==
    LET segs == Split(url, "/")
        starts == {k \in 1..(Len(segs) - 2) : segs[k] # <<>> /\ segs[k + 1] # <<>> /\ segs[k + 2] # <<>>}
    IN  IF starts = {} THEN None ELSE Some(SubSeq(segs, Min(starts), Min(starts) + 2))

\* re.search(r'([^/]+)\.github\.io/([^/]+)', url): Some(<<username,
\* repo_name>>) of the leftmost match, or None
GithubIoMatch(url) ==
    LET lit == <<".", "g", "i", "t", "h", "u", "b", ".", "i", "o", "/">>
        matchAt(i) == /\ SubSeq(url, i, i + Len(lit) - 1) = lit
                      /\ i > 1
                      /\ url[i - 1] # "/"
                      /\ i + Len(lit) <= Len(url)
                      /\ url[i + Len(lit)] # "/"
        starts == {i \in 1..(Len(url) - Len(lit) + 1) : matchAt(i)}
    IN  IF starts = {} THEN None
        ELSE LET i == Min(starts)
                 before == SubSeq(url, 1, i - 1)
                 slashes == {j \in 1..Len(before) : before[j] = "/"}
                 from == IF slashes = {} THEN 1 ELSE Max(slashes) + 1
                 after == SubSeq(url, i + Len(lit), Len(url))
             IN  Some(<<SubSeq(before, from, i - 1), SubSeq(after, 1, SpanOutside(after, {"/"}))>>)

\* The GitLab project answer: last_activity_at and archived
GitlabBody(last_activity_at, archived) ==
    [kind |-> "object", last_activity_at |-> last_activity_at, archived |-> archived]

\* the snapshot from the project answer; a body that is no object raises
\* into the except branch
GitlabSnapshot(r, url) ==
    IF ~Truthy(r.data) \/ r.data.kind # "object" THEN Returns(Failure, r.cache)
    ELSE Returns(PackageData(TRUE, r.data.last_activity_at, r.data.archived, Some(url)), r.cache)

\* the project request: '.git' removed from the path and '/' quoted
GitlabProject(c, project, url, net) ==
    GitlabSnapshot(MakeRequest(c, <<"https://gitlab.com/api/v4/projects/">>
                                   \o Replace(Replace(project, DotGit, <<>>), <<"/">>, <<"%", "2", "F">>),
                               net.gitlab),
                   url)

\* the project path of the gitlab.com match, else of the generic match
GitlabMatch(c, m1, m2, url, net) ==
    IF IsSome(m1) THEN GitlabProject(c, Get(m1)[1] \o <<"/">> \o Get(m1)[2], url, net)
    ELSE IF IsSome(m2) THEN GitlabProject(c, Get(m2)[2] \o <<"/">> \o Get(m2)[3], url, net)
    ELSE Returns(Failure, c)

\* _analyze_gitlab_url under the answer net.gitlab; every exception becomes
\* {'success': False}
AnalyzeGitlabUrl(c, url, version, net) ==
    GitlabMatch(c, LitThenSegs(url, <<"g", "i", "t", "l", "a", "b", ".", "c", "o", "m", "/">>, 2), LitThenSegs(url, <<"g", "i", "t", "l", "a", "b", ".">>, 3), url, net)

\* The Bitbucket repository answer: updated_on
BitbucketBody(updated_on) == [kind |-> "object", updated_on |-> updated_on]

\* the snapshot from the repository answer
BitbucketSnapshot(r, url) ==
    IF ~Truthy(r.data) \/ r.data.kind # "object" THEN Returns(Failure, r.cache)
    ELSE Returns(PackageData(TRUE, r.data.updated_on, FALSE, Some(url)), r.cache)

\* _analyze_bitbucket_url after the regex
BitbucketMatch(c, m, url, net) ==
    IF ~IsSome(m) THEN Returns(Failure, c)
    ELSE BitbucketSnapshot(MakeRequest(c, <<"https://api.bitbucket.org/2.0/repositories/">> \o Get(m)[1]
                                           \o <<"/">> \o Replace(Get(m)[2], DotGit, <<>>),
                                       net.bitbucket),
                           url)

\* _analyze_bitbucket_url under the answer net.bitbucket
AnalyzeBitbucketUrl(c, url, version, net) ==
    BitbucketMatch(c, LitThenSegs(url, <<"b", "i", "t", "b", "u", "c", "k", "e", "t", ".", "o", "r", "g", "/">>, 2), url, net)

\* the snapshot of the GitHub branch: the date is the matched release's, else
\* the last commit's; the archival flag doubles as the deprecation flag
GithubSnapshot(repo_data, matched, github_url) ==
    Returns(PackageData(TRUE,
                        IF IsSome(matched.ret) THEN matched.ret ELSE repo_data.last_commit_date,
                        repo_data.archived, Some(github_url)),
            matched.cache)

\* the GitHub branch after the repository lookup
AfterRepoInfo(info, github_url, version, net) ==
    IF ~IsSome(info.ret) THEN Returns(Failure, info.cache)
    ELSE GithubSnapshot(Get(info.ret),
                        GetGithubReleaseForVersion(info.cache, Get(info.ret).owner, Get(info.ret).repo,
                                                   version, net),
                        github_url)

\* The GitHub branch of _analyze_from_url; github_url is the URL the snapshot
\* records as repo_url.
AnalyzeGithubUrl(c, github_url, version, net) ==
    AfterRepoInfo(GetGithubRepoInfo(c, github_url, net), github_url, version, net)

\* the repositories the hard-coded aliases stand for
BoostRepository == <<"h", "t", "t", "p", "s", ":", "/", "/", "g", "i", "t", "h", "u", "b", ".", "c", "o", "m", "/", "b", "o", "o", "s", "t", "o", "r", "g", "/", "b", "o", "o", "s", "t">>

CAresRepository == <<"h", "t", "t", "p", "s", ":", "/", "/", "g", "i", "t", "h", "u", "b", ".", "c", "o", "m", "/", "c", "-", "a", "r", "e", "s", "/", "c", "-", "a", "r", "e", "s">>

\* whether url reaches the registry, Boost and c-ares branches of
\* _analyze_from_url: none of the repository hosts is in it
PastRepositoryHosts(url) ==
    /\ ~Contains(GithubCom, url) /\ ~Contains(<<"g", "i", "t", "h", "u", "b", ".", "i", "o">>, url)
    /\ ~Contains(<<"g", "i", "t", "l", "a", "b", ".">>, url) /\ ~Contains(<<"b", "i", "t", "b", "u", "c", "k", "e", "t", ".", "o", "r", "g">>, url)
    /\ ~Contains(<<"g", "o", "o", "g", "l", "e", "s", "o", "u", "r", "c", "e", ".", "c", "o", "m">>, url)

\* whether url reaches the Boost and c-ares branches: no registry site is
\* in it either
PastRegistrySites(url) ==
    /\ PastRepositoryHosts(url)
    /\ ~Contains(<<"n", "p", "m", "j", "s", ".", "c", "o", "m">>, url) /\ ~Contains(<<"n", "p", "m", "j", "s", ".", "o", "r", "g">>, url)
    /\ ~Contains(<<"p", "y", "p", "i", ".", "o", "r", "g">>, url) /\ ~Contains(<<"p", "y", "p", "i", ".", "p", "y", "t", "h", "o", "n", ".", "o", "r", "g">>, url)
    /\ ~Contains(<<"n", "u", "g", "e", "t", ".", "o", "r", "g">>, url)
    /\ ~Contains(<<"m", "a", "v", "e", "n">>, url) /\ ~Contains(<<"m", "v", "n", "r", "e", "p", "o", "s", "i", "t", "o", "r", "y", ".", "c", "o", "m">>, url)

\* how many times _analyze_from_url calls itself when called with url
RECURSIVE Reentries(_)
Reentries(url) ==
    IF ~PastRegistrySites(url) THEN 0
    ELSE IF Contains(<<"b", "o", "o", "s", "t", ".", "o", "r", "g">>, url) THEN 1 + Reentries(BoostRepository)
    ELSE IF Contains(<<"c", "-", "a", "r", "e", "s">>, url) THEN 1 + Reentries(CAresRepository)
    ELSE 0

\* _analyze_from_url under the answers net of the upstreams
RECURSIVE AnalyzeFromUrl(_, _, _, _, _)
AnalyzeFromUrl(c, url, name, version, net) ==
    IF Contains(GithubCom, url) THEN AnalyzeGithubUrl(c, url, version, net)
    ELSE IF Contains(<<"g", "i", "t", "h", "u", "b", ".", "i", "o">>, url)
    THEN LET match == GithubIoMatch(url)
         IN  IF IsSome(match)
             THEN AnalyzeGithubUrl(c, <<"h", "t", "t", "p", "s", ":", "/", "/", "g", "i", "t", "h", "u", "b", ".", "c", "o", "m", "/">> \o Get(match)[1] \o <<"/">> \o Get(match)[2],
                                   version, net)
             ELSE Returns(Failure, c)
    ELSE IF Contains(<<"g", "i", "t", "l", "a", "b", ".", "c", "o", "m">>, url) \/ Contains(<<"g", "i", "t", "l", "a", "b", ".">>, url)
    THEN AnalyzeGitlabUrl(c, url, version, net)
    ELSE IF Contains(<<"b", "i", "t", "b", "u", "c", "k", "e", "t", ".", "o", "r", "g">>, url)
    THEN AnalyzeBitbucketUrl(c, url, version, net)
    ELSE IF Contains(<<"g", "o", "o", "g", "l", "e", "s", "o", "u", "r", "c", "e", ".", "c", "o", "m">>, url)
    THEN Returns(Failure, c)
    ELSE IF Contains(<<"n", "p", "m", "j", "s", ".", "c", "o", "m">>, url) \/ Contains(<<"n", "p", "m", "j", "s", ".", "o", "r", "g">>, url)
    THEN LET m1 == LitThenSegs(url, <<"n", "p", "m", "j", "s", ".", "c", "o", "m", "/", "p", "a", "c", "k", "a", "g", "e", "/">>, 1)
             m2 == LitThenSegs(url, <<"n", "p", "m", "j", "s", ".", "o", "r", "g", "/", "p", "a", "c", "k", "a", "g", "e", "/">>, 1)
             i1 == SegsStart(url, <<"n", "p", "m", "j", "s", ".", "c", "o", "m", "/", "p", "a", "c", "k", "a", "g", "e", "/">>, 1)
             i2 == SegsStart(url, <<"n", "p", "m", "j", "s", ".", "o", "r", "g", "/", "p", "a", "c", "k", "a", "g", "e", "/">>, 1)
             match == IF IsSome(m1) /\ (~IsSome(m2) \/ i1 < i2) THEN m1 ELSE m2
         IN  IF IsSome(match) THEN AnalyzeNpmPackage(c, Get(match)[1], version, net)
             ELSE Returns(Failure, c)
    ELSE IF Contains(<<"p", "y", "p", "i", ".", "o", "r", "g">>, url) \/ Contains(<<"p", "y", "p", "i", ".", "p", "y", "t", "h", "o", "n", ".", "o", "r", "g">>, url)
    THEN LET match == LitThenSegs(url, <<"p", "y", "p", "i", ".", "o", "r", "g", "/", "p", "r", "o", "j", "e", "c", "t", "/">>, 1)
         IN  IF IsSome(match) THEN AnalyzePypiPackage(c, Get(match)[1], version, net)
             ELSE Returns(Failure, c)
    ELSE IF Contains(<<"n", "u", "g", "e", "t", ".", "o", "r", "g">>, url)
    THEN LET match == LitThenSegs(url, <<"n", "u", "g", "e", "t", ".", "o", "r", "g", "/", "p", "a", "c", "k", "a", "g", "e", "s", "/">>, 1)
         IN  IF IsSome(match) THEN AnalyzeNugetPackage(c, Get(match)[1], version, net)
             ELSE Returns(Failure, c)
    ELSE IF Contains(<<"m", "a", "v", "e", "n">>, url) \/ Contains(<<"m", "v", "n", "r", "e", "p", "o", "s", "i", "t", "o", "r", "y", ".", "c", "o", "m">>, url)
    THEN LET match == ThreeSegs(url)
         IN  IF IsSome(match) THEN AnalyzeMavenPackage(c, Get(match)[1], Get(match)[2], version, net)
             ELSE Returns(Failure, c)
    ELSE IF Contains(<<"b", "o", "o", "s", "t", ".", "o", "r", "g">>, url)
    THEN AnalyzeFromUrl(c, BoostRepository, name, version, net)
    ELSE IF Contains(<<"c", "-", "a", "r", "e", "s">>, url)
    THEN AnalyzeFromUrl(c, CAresRepository, name, version, net)
    ELSE Returns(Failure, c)

----------------------------------------------------------------------------
(* Classification decision *)

Verdict(level, eol, conf, step) ==
    [support_level |-> level, end_of_life |-> eol, confidence |-> conf, step |-> step]

\* package_data.get('latest_date').strftime('%Y-%m-%d') if present else 'Unknown'
LatestDateOrUnknown(package_data) ==
    IF IsSome(package_data.latest_date)
    THEN DateString(FormatDate(Get(package_data.latest_date)))
    ELSE Text("Unknown")

\* the verdict of STEP 1 from the framework's support status
FrameworkVerdict(framework_support) ==
    IF ~IsSome(framework_support) THEN None
    ELSE IF Get(framework_support).is_supported
    THEN Some(Verdict("ACTIVELY_MAINTAINED",
                      DateString(Get(framework_support).eol_date), "HIGH", "framework"))
    ELSE Some(Verdict("NO_LONGER_MAINTAINED",
                      DateString(Get(framework_support).eol_date), "HIGH", "framework"))

\* framework_support of STEP 1, None without a detected framework
SupportOfDetected(framework, version, now) ==
    IF IsSome(framework) THEN IsFrameworkSupported(Get(framework), version, now) ELSE None

\* STEP 1 of _calculate_support_level: Some(verdict) when the framework
\* lifecycle resolves, None to fall through
FrameworkStep(name, version, ecosystem, now) ==
    FrameworkVerdict(SupportOfDetected(DetectFramework(name, ecosystem), version, now))

\* The commit-recency flags: <<recent_commits, some_commits>>
CommitActivity(repo_data, now) ==
    IF IsSome(repo_data) /\ IsSome(Get(repo_data).last_commit_date)
    THEN LET days_since_commit == DaysBetween(now, Get(Get(repo_data).last_commit_date))
         IN  IF days_since_commit <= 365 THEN <<TRUE, TRUE>>
             ELSE IF days_since_commit <= 730 THEN <<FALSE, TRUE>>
             ELSE <<FALSE, FALSE>>
    ELSE <<FALSE, FALSE>>

\* AgeTier with the 1825-day boundary exclusive (< for <=)
AgeTier_ExclusiveBoundary(package_data, repo_data, days_since_release, now, product_eol) ==
    LET recent_commits == CommitActivity(repo_data, now)[1]
        some_commits == CommitActivity(repo_data, now)[2]
    IN  IF days_since_release < 1825
        THEN Verdict("ACTIVELY_MAINTAINED",
                     IF IsSome(product_eol) THEN Get(product_eol) ELSE Text("Not specified"),
                     IF recent_commits \/ some_commits THEN "HIGH" ELSE "MEDIUM",
                     "age")
        ELSE Verdict("NO_LONGER_MAINTAINED", LatestDateOrUnknown(package_data), "MEDIUM", "age")

\* AgeTier with the stale tier inheriting the product end-of-life date too
AgeTier_StaleProductEol(package_data, repo_data, days_since_release, now, product_eol) ==
    LET recent_commits == CommitActivity(repo_data, now)[1]
        some_commits == CommitActivity(repo_data, now)[2]
        eol == IF IsSome(product_eol) THEN Get(product_eol) ELSE Text("Not specified")
    IN  IF days_since_release <= 1825
        THEN Verdict("ACTIVELY_MAINTAINED", eol,
                     IF recent_commits \/ some_commits THEN "HIGH" ELSE "MEDIUM", "age")
        ELSE Verdict("NO_LONGER_MAINTAINED", eol, "MEDIUM", "age")

\* AgeTier with the commit activity never read (always MEDIUM)
AgeTier_CommitsIgnored(package_data, repo_data, days_since_release, now, product_eol) ==
    IF days_since_release <= 1825
    THEN Verdict("ACTIVELY_MAINTAINED",
                 IF IsSome(product_eol) THEN Get(product_eol) ELSE Text("Not specified"),
                 "MEDIUM", "age")
    ELSE Verdict("NO_LONGER_MAINTAINED", LatestDateOrUnknown(package_data), "MEDIUM", "age")

\* The age tiers of _calculate_support_level, reached with a release date
AgeTier(package_data, repo_data, days_since_release, now, product_eol) ==
    LET recent_commits == CommitActivity(repo_data, now)[1]
        some_commits == CommitActivity(repo_data, now)[2]
    IN  IF days_since_release <= 1825
        THEN Verdict("ACTIVELY_MAINTAINED",
                     IF IsSome(product_eol) THEN Get(product_eol) ELSE Text("Not specified"),
                     IF recent_commits \/ some_commits THEN "HIGH" ELSE "MEDIUM",
                     "age")
        ELSE Verdict("NO_LONGER_MAINTAINED", LatestDateOrUnknown(package_data), "MEDIUM", "age")

\* AfterFrameworkStep with a recent release tiered before the deprecation flag
\* is read
AfterFrameworkStep_AgeBeforeDeprecation(package_data, repo_data, days_since_release, now, product_eol) ==
    IF IsSome(days_since_release) /\ Get(days_since_release) <= 1825
    THEN AgeTier(package_data, repo_data, Get(days_since_release), now, product_eol)
    ELSE IF package_data.deprecated
    THEN Verdict("ABANDONED", LatestDateOrUnknown(package_data), "HIGH", "deprecated")
    ELSE IF IsSome(repo_data) /\ Get(repo_data).archived
    THEN Verdict("ABANDONED", LatestDateOrUnknown(package_data), "HIGH", "archived")
    ELSE IF ~IsSome(days_since_release)
    THEN Verdict("UNKNOWN", Text("Cannot determine"), "NONE", "no_date")
    ELSE AgeTier(package_data, repo_data, Get(days_since_release), now, product_eol)

\* AfterFrameworkStep with the missing release date checked first
AfterFrameworkStep_NoDateFirst(package_data, repo_data, days_since_release, now, product_eol) ==
    IF ~IsSome(days_since_release)
    THEN Verdict("UNKNOWN", Text("Cannot determine"), "NONE", "no_date")
    ELSE IF package_data.deprecated
    THEN Verdict("ABANDONED", LatestDateOrUnknown(package_data), "HIGH", "deprecated")
    ELSE IF IsSome(repo_data) /\ Get(repo_data).archived
    THEN Verdict("ABANDONED", LatestDateOrUnknown(package_data), "HIGH", "archived")
    ELSE AgeTier(package_data, repo_data, Get(days_since_release), now, product_eol)

\* AfterFrameworkStep without STEP 3, the archival check
AfterFrameworkStep_NoArchivalStep(package_data, repo_data, days_since_release, now, product_eol) ==
    IF package_data.deprecated
    THEN Verdict("ABANDONED", LatestDateOrUnknown(package_data), "HIGH", "deprecated")
    ELSE IF ~IsSome(days_since_release)
    THEN Verdict("UNKNOWN", Text("Cannot determine"), "NONE", "no_date")
    ELSE AgeTier(package_data, repo_data, Get(days_since_release), now, product_eol)

\* the later steps with the undated component reported at medium confidence
AfterFrameworkStep_UnknownAtMedium(package_data, repo_data, days_since_release, now, product_eol) ==
    IF package_data.deprecated
    THEN Verdict("ABANDONED", LatestDateOrUnknown(package_data), "HIGH", "deprecated")
    ELSE IF IsSome(repo_data) /\ Get(repo_data).archived
    THEN Verdict("ABANDONED", LatestDateOrUnknown(package_data), "HIGH", "archived")
    ELSE IF ~IsSome(days_since_release)
    THEN Verdict("UNKNOWN", Text("Cannot determine"), "MEDIUM", "no_date")
    ELSE AgeTier(package_data, repo_data, Get(days_since_release), now, product_eol)

\* STEP 2, STEP 3 and the rest of _calculate_support_level, after STEP 1
\* fell through.  The step field names the return statement taken.  The
\* stars/forks engagement flag is computed by the code and never read.
AfterFrameworkStep(package_data, repo_data, days_since_release, now, product_eol) ==
    IF package_data.deprecated
    THEN Verdict("ABANDONED", LatestDateOrUnknown(package_data), "HIGH", "deprecated")
    ELSE IF IsSome(repo_data) /\ Get(repo_data).archived
    THEN Verdict("ABANDONED", LatestDateOrUnknown(package_data), "HIGH", "archived")
    ELSE IF ~IsSome(days_since_release)
    THEN Verdict("UNKNOWN", Text("Cannot determine"), "NONE", "no_date")
    ELSE AgeTier(package_data, repo_data, Get(days_since_release), now, product_eol)

\* _calculate_support_level with the framework step tried only for a release
\* that is not stale
CalculateSupportLevel_StaleSkipsFramework(package_data, repo_data, days_since_release, name, version, ecosystem, now, product_eol) ==
    LET fw == FrameworkStep(name, version, ecosystem, now)
        stale == IsSome(days_since_release) /\ Get(days_since_release) > 1825
    IN  IF IsSome(fw) /\ ~stale THEN Get(fw)
        ELSE AfterFrameworkStep(package_data, repo_data, days_since_release, now, product_eol)

\* the verdict of STEP 1 when there is one, else the later steps'
FirstVerdict(fw, package_data, repo_data, days_since_release, now, product_eol) ==
    IF IsSome(fw) THEN Get(fw)
    ELSE AfterFrameworkStep(package_data, repo_data, days_since_release, now, product_eol)

\* _calculate_support_level
CalculateSupportLevel(package_data, repo_data, days_since_release, name, version, ecosystem, now, product_eol) ==
    FirstVerdict(FrameworkStep(name, version, ecosystem, now),
                 package_data, repo_data, days_since_release, now, product_eol)

\* analyze_component's days_since_release: None without a release date
DaysSinceRelease(package_data, now) ==
    IF IsSome(package_data.latest_date)
    THEN Some(DaysBetween(now, Get(package_data.latest_date)))
    ELSE None

----------------------------------------------------------------------------
(* Per-component resolution chain (analyze_component) *)

\* A component of the bill of materials: purl is None when absent, and a
\* reference's url is empty when absent
Component(name, version, purl, refs) ==
    [name |-> name, version |-> version, purl |-> purl, externalReferences |-> refs]

Ref(type, url) == [type |-> type, url |-> url]

\* x or y on strings: the empty string is false
StrOr(x, y) == IF IsSome(x) /\ Get(x) # <<>> THEN Get(x) ELSE y

\* f"{x}" of an optional string: 'None' for None
Str(x) == IF IsSome(x) THEN Get(x) ELSE <<"N", "o", "n", "e">>

\* the snapshot of a pkg:github component: the repository's last commit is
\* its date and its archival flag its deprecation flag
GithubPurlSnapshot(info) ==
    IF IsSome(info.ret)
    THEN Returns(PackageData(TRUE, Get(info.ret).last_commit_date, Get(info.ret).archived, None), info.cache)
    ELSE Returns(Failure, info.cache)

\* one call: the function and its arguments
Call(fn, args) == [fn |-> fn, args |-> args]

\* The call the registry dispatch makes for the parsed purl: the ecosystem's
\* client, or for pkg:github the repository lookup.  None for any other
\* ecosystem and for Maven without a namespace.
PurlClient(parsed, version) ==
    IF parsed.ecosystem = <<"n", "u", "g", "e", "t">>
    THEN Some(Call("_analyze_nuget_package", <<parsed.name, StrOr(parsed.version, version)>>))
    ELSE IF parsed.ecosystem = <<"n", "p", "m">>
    THEN Some(Call("_analyze_npm_package", <<parsed.name, StrOr(parsed.version, version)>>))
    ELSE IF parsed.ecosystem = <<"p", "y", "p", "i">>
    THEN Some(Call("_analyze_pypi_package", <<parsed.name, StrOr(parsed.version, version)>>))
    ELSE IF parsed.ecosystem = <<"m", "a", "v", "e", "n">>
    THEN IF IsSome(parsed.namespace) /\ Get(parsed.namespace) # <<>>
         THEN Some(Call("_analyze_maven_package",
                        <<Get(parsed.namespace), parsed.name, StrOr(parsed.version, version)>>))
         ELSE None
    ELSE IF parsed.ecosystem = <<"c", "o", "c", "o", "a", "p", "o", "d", "s">>
    THEN Some(Call("_analyze_cocoapods_package", <<parsed.name, StrOr(parsed.version, version)>>))
    ELSE IF parsed.ecosystem = <<"g", "i", "t", "h", "u", "b">>
    THEN Some(Call("_get_github_repo_info",
                   <<<<"h", "t", "t", "p", "s", ":", "/", "/", "g", "i", "t", "h", "u", "b", ".", "c", "o", "m", "/">> \o Str(parsed.namespace) \o <<"/">> \o parsed.name>>))
    ELSE None

\* the call made: the client's snapshot, for pkg:github the repository's
Invoke(c, client, net) ==
    IF client.fn = "_analyze_nuget_package"
    THEN AnalyzeNugetPackage(c, client.args[1], client.args[2], net)
    ELSE IF client.fn = "_analyze_npm_package"
    THEN AnalyzeNpmPackage(c, client.args[1], client.args[2], net)
    ELSE IF client.fn = "_analyze_pypi_package"
    THEN AnalyzePypiPackage(c, client.args[1], client.args[2], net)
    ELSE IF client.fn = "_analyze_maven_package"
    THEN AnalyzeMavenPackage(c, client.args[1], client.args[2], client.args[3], net)
    ELSE IF client.fn = "_analyze_cocoapods_package"
    THEN AnalyzeCocoapodsPackage(c, client.args[1], client.args[2], net)
    ELSE GithubPurlSnapshot(GetGithubRepoInfo(c, client.args[1], net))

\* package_data after the dispatch: {'success': False} when no call is made
CallOrFail(c, client, net) ==
    IF IsSome(client) THEN Invoke(c, Get(client), net) ELSE Returns(Failure, c)

\* The registry dispatch on the parsed purl
PurlAnalysis(c, parsed, version, net) == CallOrFail(c, PurlClient(parsed, version), net)

\* the log extended by a call and its outcome
Logged(log, client, ret, raised) ==
    Append(log, [fn |-> client.fn, args |-> client.args, ret |-> ret, raised |-> raised])

\* the urls, in order, of the references of one type that have a url
RECURSIVE UrlsOfType(_, _)
UrlsOfType(refs, type) ==
    IF refs = <<>> THEN <<>>
    ELSE (IF Head(refs).type = type /\ Head(refs).url # <<>> THEN <<Head(refs).url>> ELSE <<>>)
         \o UrlsOfType(Tail(refs), type)

\* urls extended by the urls of refs that it does not hold yet
RECURSIVE AddRemaining(_, _)
AddRemaining(urls, refs) ==
    IF refs = <<>> THEN urls
    ELSE LET url == Head(refs).url
             seen == \E i \in 1..Len(urls) : urls[i] = url
         IN  AddRemaining(IF url # <<>> /\ ~seen THEN Append(urls, url) ELSE urls, Tail(refs))

\* UrlsToTry without the priority of reference types: original order
UrlsToTry_OriginalOrder(refs) == AddRemaining(<<>>, refs)

\* urls_to_try: the reference urls by type priority, then the rest
UrlsToTry(refs) ==
    AddRemaining(UrlsOfType(refs, "vcs") \o UrlsOfType(refs, "repository")
                 \o UrlsOfType(refs, "website") \o UrlsOfType(refs, "distribution"), refs)

\* the repository URL analyze_component looks up: the snapshot's, else the
\* first vcs or website reference that holds 'github.com'
RepoUrl(snapshot, refs) ==
    LET hits == {i \in 1..Len(refs) : refs[i].type \in {"vcs", "website"} /\ Contains(GithubCom, refs[i].url)}
    IN  IF IsSome(snapshot.repo_url) /\ Get(snapshot.repo_url) # <<>> THEN snapshot.repo_url
        ELSE IF hits # {} THEN Some(refs[Min(hits)].url)
        ELSE None

\* The AnalysisResult record
Result(level, eol, conf, last_release_date, days_since_release, last_commit_date) ==
    [support_level |-> level, end_of_life |-> eol, confidence |-> conf,
     last_release_date |-> last_release_date, days_since_release |-> days_since_release,
     last_commit_date |-> last_commit_date]

\* result as analyze_component initialises it
InitialResult == Result("UNKNOWN", Text("Cannot determine"), "NONE", None, None, None)

\* strftime('%Y-%m-%d') of an optional instant
DayOf(instant) == IF IsSome(instant) THEN Some(FormatDate(Get(instant))) ELSE None

----------------------------------------------------------------------------
(* The inputs the checks draw from *)

SystemTextJson == <<"S", "y", "s", "t", "e", "m", ".", "T", "e", "x", "t", ".", "J", "s", "o", "n">>

MicrosoftDataSqlite == <<"M", "i", "c", "r", "o", "s", "o", "f", "t", ".", "D", "a", "t", "a", ".", "S", "q", "l", "i", "t", "e">>

Lodash == <<"l", "o", "d", "a", "s", "h">>

SpringCore == <<"s", "p", "r", "i", "n", "g", "-", "c", "o", "r", "e">>

V801 == <<"8", ".", "0", ".", "1">>

V700 == <<"7", ".", "0", ".", "0">>

V900 == <<"9", ".", "0", ".", "0">>

V450 == <<"4", ".", "5", ".", "0">>

Names == {SystemTextJson, MicrosoftDataSqlite, Lodash, SpringCore}

Versions == {V801, V700, V900, V450}

Ecosystems == {None, Some(<<"n", "u", "g", "e", "t">>)}

\* 2024-01-01T00:00, the evening of 2026-11-09, 2026-11-10T00:00 and later
\* that day (2026-11-10 is the end-of-life date of .NET 8.0)
Todays == {ParseDate(19723), ParseDate(20766) + 1, ParseDate(20767), ParseDate(20767) + 1}

\* the product end-of-life date given on the command line, if any: 2030-01-01
ProductEols == {None, Some(DateString(21915))}

\* release instants: none, now, 1825 days ago to the tick, a tick earlier
\* (still 1825 whole days), 1826 days ago, and 2016-03-23
ReleaseDates(now) ==
    {None, Some(now), Some(now - 1825 * TicksPerDay), Some(now - 1825 * TicksPerDay - 1),
     Some(now - 1826 * TicksPerDay), Some(ParseDate(16883))}

\* last-commit instants: none, now, 730 days ago, a tick earlier, 731 days ago
CommitDates(now) ==
    {None, Some(now), Some(now - 730 * TicksPerDay), Some(now - 730 * TicksPerDay - 1),
     Some(now - 731 * TicksPerDay)}

\* The arguments analyze_component passes to _calculate_support_level
Args(package_data, repo_data, name, version, ecosystem, now) ==
    [package_data |-> package_data, repo_data |-> repo_data,
     days_since_release |-> DaysSinceRelease(package_data, now),
     name |-> name, version |-> version, ecosystem |-> ecosystem, ret |-> None]

\* no call of _calculate_support_level yet
NoCall == Args(Failure, None, <<>>, <<>>, None, 0)

\* analyze_component's locals
Frame(purl_data, package_data, urls_to_try, repo_data) ==
    [purl_data |-> purl_data, package_data |-> package_data,
     urls_to_try |-> urls_to_try, repo_data |-> repo_data]

\* analyze_sbom's locals
Batch(components, i, results) == [components |-> components, i |-> i, results |-> results]

\* no batch: analyze_component called on its own
NoBatch == Batch(<<>>, 0, <<>>)

\* the analysis instant of the resolution-chain runs: midday of 2026-11-03
AnalysisTime == ParseDate(20760) + 1

\* a release ten days before the analysis, one of 2016-03-23, and a last
\* commit 800 days before the analysis
FreshDate == AnalysisTime - 10 * TicksPerDay

StaleDate == ParseDate(16883)

OldCommitDate == AnalysisTime - 800 * TicksPerDay

V41721 == <<"4", ".", "1", "7", ".", "2", "1">>

V20 == <<"2", ".", "0">>

Sha1 == <<"5", "f", "1", "e", "2", "d">>

Shas == {Sha1}

NugetPage1 == <<"https://api.nuget.org/v3/registration5-semver1/system.text.json/page/8.0.0/8.0.1.json">>

PageIds == {NugetPage1}

V100 == <<"1", ".", "0", ".", "0">>

\* the identifier of an npm package in a scope
ScopedPurl == <<"p", "k", "g", ":", "n", "p", "m", "/", "@", "s", "c", "o", "p", "e", "/", "p", "k", "g", "@", "1", ".", "0", ".", "0">>

\* a Maven identifier without a group id
MavenNoNamespace == <<"p", "k", "g", ":", "m", "a", "v", "e", "n", "/", "c", "o", "m", "m", "o", "n", "s", "@", "1", ".", "0">>

\* a decoded body that is a list where the reader expects an object
UnexpectedList == ListBody(<<"x">>)

\* The components the resolution chain is run on
Catalog ==
    { Component(SystemTextJson, V801, Some(<<"p", "k", "g", ":", "n", "u", "g", "e", "t", "/", "S", "y", "s", "t", "e", "m", ".", "T", "e", "x", "t", ".", "J", "s", "o", "n", "@", "8", ".", "0", ".", "1">>), <<>>),
      Component(Lodash, V41721, Some(<<"p", "k", "g", ":", "n", "p", "m", "/", "l", "o", "d", "a", "s", "h", "@", "4", ".", "1", "7", ".", "2", "1">>),
                <<Ref("vcs", <<"h", "t", "t", "p", "s", ":", "/", "/", "g", "i", "t", "h", "u", "b", ".", "c", "o", "m", "/", "l", "o", "d", "a", "s", "h", "/", "l", "o", "d", "a", "s", "h">>)>>),
      Component(<<"r">>, V20, Some(<<"p", "k", "g", ":", "g", "i", "t", "h", "u", "b", "/", "o", "/", "r", "@", "2", ".", "0">>), <<>>),
      Component(<<"c", "o", "m", "m", "o", "n", "s">>, <<"1", ".", "0">>, Some(<<"p", "k", "g", ":", "m", "a", "v", "e", "n", "/", "o", "r", "g", ".", "a", "p", "a", "c", "h", "e", "/", "c", "o", "m", "m", "o", "n", "s", "@", "1", ".", "0">>), <<>>),
      Component(<<"p", "k", "g">>, V100, Some(ScopedPurl), <<>>),
      Component(<<"c", "o", "m", "m", "o", "n", "s">>, <<"1", ".", "0">>, Some(MavenNoNamespace), <<Ref("vcs", <<"h", "t", "t", "p", "s", ":", "/", "/", "g", "i", "t", "l", "a", "b", ".", "c", "o", "m", "/", "o", "/", "c">>)>>),
      Component(<<"z">>, <<"1", ".", "0">>, Some(<<"p", "k", "g", ":", "c", "a", "r", "g", "o", "/", "z", "@", "1", ".", "0">>), <<>>),
      Component(<<"w">>, <<"1", ".", "0">>, Some(<<"w", "@", "1", ".", "0">>), <<>>),
      Component(<<"y">>, V20, None,
                <<Ref("distribution", <<"h", "t", "t", "p", "s", ":", "/", "/", "e", "x", "a", "m", "p", "l", "e", ".", "o", "r", "g", "/", "y", ".", "t", "g", "z">>),
                  Ref("website", <<"h", "t", "t", "p", "s", ":", "/", "/", "g", "i", "t", "l", "a", "b", ".", "c", "o", "m", "/", "o", "/", "y">>),
                  Ref("issue-tracker", <<"h", "t", "t", "p", "s", ":", "/", "/", "b", "i", "t", "b", "u", "c", "k", "e", "t", ".", "o", "r", "g", "/", "o", "/", "y">>),
                  Ref("vcs", <<"h", "t", "t", "p", "s", ":", "/", "/", "g", "i", "t", "h", "u", "b", ".", "c", "o", "m", "/", "o", "/", "y">>),
                  Ref("repository", <<"h", "t", "t", "p", "s", ":", "/", "/", "g", "i", "t", "h", "u", "b", ".", "c", "o", "m", "/", "o", "/", "y", "2">>),
                  Ref("vcs", <<"h", "t", "t", "p", "s", ":", "/", "/", "g", "i", "t", "h", "u", "b", ".", "c", "o", "m", "/", "o", "/", "y", "3">>)>>),
      Component(<<"x">>, V20, None,
                <<Ref("website", <<"h", "t", "t", "p", "s", ":", "/", "/", "e", "x", "a", "m", "p", "l", "e", ".", "o", "r", "g", "/", "x">>), Ref("vcs", <<"h", "t", "t", "p", "s", ":", "/", "/", "g", "i", "t", "h", "u", "b", ".", "c", "o", "m", "/", "o", "/", "r">>)>>),
      Component(<<"d">>, V20, None,
                <<Ref("vcs", <<"h", "t", "t", "p", "s", ":", "/", "/", "g", "i", "t", "l", "a", "b", ".", "c", "o", "m", "/", "o", "/", "d">>), Ref("website", <<"h", "t", "t", "p", "s", ":", "/", "/", "g", "i", "t", "l", "a", "b", ".", "c", "o", "m", "/", "o", "/", "d">>), Ref("vcs", <<"h", "t", "t", "p", "s", ":", "/", "/", "g", "i", "t", "l", "a", "b", ".", "c", "o", "m", "/", "o", "/", "d">>)>>),
      Component(<<"b", "o", "o", "s", "t">>, V20, None, <<Ref("website", <<"h", "t", "t", "p", "s", ":", "/", "/", "w", "w", "w", ".", "b", "o", "o", "s", "t", ".", "o", "r", "g", "/">>)>>),
      Component(<<"c", "-", "a", "r", "e", "s">>, V20, None, <<Ref("website", <<"h", "t", "t", "p", "s", ":", "/", "/", "c", "-", "a", "r", "e", "s", ".", "o", "r", "g", "/">>)>>) }

\* Every upstream fails
NoNet ==
    [repo |-> NoBody, commits |-> NoBody, releases |-> NoBody, tags |-> NoBody,
     commit |-> [s \in Shas |-> NoBody],
     nuget |-> NoBody, page |-> [p \in PageIds |-> NoBody],
     npm |-> NoBody, pypi |-> NoBody, maven |-> NoBody, cocoapods |-> NoBody,
     gitlab |-> NoBody, bitbucket |-> NoBody]

RepoBodies == {NoBody, GithubRepoBody(FALSE), GithubRepoBody(TRUE), UnexpectedList}

CommitsBodies ==
    {NoBody, ListBody(<<CommitItem(Some(FreshDate))>>), ListBody(<<CommitItem(Some(OldCommitDate))>>)}

ReleasesBodies ==
    {NoBody,
     ListBody(<<Release(<<"v", "2", ".", "0", ".", "0">>, Some(<<"R", "e", "l", "e", "a", "s", "e", " ", "2", ".", "0", ".", "0">>), Some(StaleDate))>>),
     ListBody(<<Release(<<"v", "2", ".", "0", ".", "0">>, None, Some(StaleDate))>>)}

TagsBodies == {NoBody, ListBody(<<Tag(<<"v", "2", ".", "0", ".", "0">>, Some(Sha1))>>)}

CommitBodies == {NoBody, CommitBody(Some(OldCommitDate))}

\* The answers of the GitHub API to one handler
GithubNets ==
    {[NoNet EXCEPT !.repo = a, !.commits = b, !.releases = r, !.tags = t, !.commit = [s \in Shas |-> k]] :
        a \in RepoBodies, b \in CommitsBodies, r \in ReleasesBodies, t \in TagsBodies, k \in CommitBodies}

NugetFresh == NugetItem(Some(V801), Some(FreshDate), FALSE, None, None, None)

NugetDeprecated == NugetItem(Some(V801), Some(StaleDate), TRUE, None, None, None)

NugetNets ==
    {[NoNet EXCEPT !.nuget = a] : a \in {NugetBody(<<NugetPage(Some(<<NugetFresh>>), None)>>), UnexpectedList}}
    \cup {[NoNet EXCEPT !.nuget = NugetBody(<<NugetPage(None, Some(NugetPage1))>>), !.page = [p \in PageIds |-> a]] :
            a \in {NoBody, NugetBody(<<NugetDeprecated>>)}}

NpmNets ==
    {[NoNet EXCEPT !.npm = a] : a \in
        {NpmBody(V41721 :> FreshDate,
                 V41721 :> NpmVersion(Some(<<"g", "i", "t", "+", "h", "t", "t", "p", "s", ":", "/", "/", "g", "i", "t", "h", "u", "b", ".", "c", "o", "m", "/", "l", "o", "d", "a", "s", "h", "/", "l", "o", "d", "a", "s", "h", ".", "g", "i", "t">>), FALSE),
                 Some(V41721)),
         NpmBody(V41721 :> StaleDate, V41721 :> NpmVersion(None, TRUE), Some(V41721)),
         NpmBody(<<>>, V41721 :> NpmVersion(None, FALSE), Some(V41721)),
         UnexpectedList}}

MavenNets ==
    {[NoNet EXCEPT !.maven = a] : a \in
        {MavenBody(Some(MavenResponse(1, Some(<<[timestamp |-> Some(FreshDate)]>>)))),
         MavenBody(Some(MavenResponse(1, None))),
         MavenBody(Some(MavenResponse(0, None))),
         UnexpectedList}}

GitlabNets == {[NoNet EXCEPT !.gitlab = GitlabBody(Some(FreshDate), FALSE)]}

BitbucketNets == {[NoNet EXCEPT !.bitbucket = BitbucketBody(Some(StaleDate))]}

\* The answers the upstreams may give to the requests of one handler
Nets == GithubNets \cup NugetNets \cup NpmNets \cup MavenNets \cup GitlabNets \cup BitbucketNets

----------------------------------------------------------------------------
(* analyze_component, statement by statement *)

Init ==
    /\ today = AnalysisTime
    /\ product_eol_date \in ProductEols
    /\ cache = <<>>
    /\ component \in Catalog
    /\ frame = Frame(None, Failure, <<>>, None)
    /\ result = None
    /\ call = NoCall
    /\ calls = <<>>
    /\ batch = NoBatch
    /\ steps = 0
    /\ pc = "purl"

\* AfterPurlAnalysis with the URL fallback entered whatever the lookup gave
AfterPurlAnalysis_AlwaysFallback(parsed, client, r) ==
    /\ cache' = r.cache
    /\ calls' = IF IsSome(client) THEN Logged(calls, Get(client), r.ret, r.raised) ELSE calls
    /\ frame' = [frame EXCEPT !.purl_data = parsed, !.package_data = r.ret]
    /\ pc' = IF r.raised THEN "raised" ELSE "fallback"

\* the outcome of the registry lookup, stored: an exception of a registry
\* client leaves analyze_component
AfterPurlAnalysis(parsed, client, r) ==
    /\ cache' = r.cache
    /\ calls' = IF IsSome(client) THEN Logged(calls, Get(client), r.ret, r.raised) ELSE calls
    /\ frame' = [frame EXCEPT !.purl_data = parsed, !.package_data = r.ret]
    /\ pc' = IF r.raised THEN "raised" ELSE IF r.ret.success THEN "repo" ELSE "fallback"

\* the registry lookup of a parsed purl, nothing without one
LookupParsed(parsed) ==
    IF ~IsSome(parsed)
    THEN /\ frame' = [frame EXCEPT !.purl_data = None]
         /\ pc' = "fallback"
         /\ UNCHANGED <<cache, calls>>
    ELSE \E net \in Nets :
            AfterPurlAnalysis(parsed, PurlClient(Get(parsed), component.version),
                              PurlAnalysis(cache, Get(parsed), component.version, net))

\* if purl: ... the registry lookup
PurlLookup ==
    /\ pc = "purl"
    /\ LookupParsed(IF IsSome(component.purl) THEN ParsePurl(Get(component.purl)) ELSE None)
    /\ steps' = steps + 1
    /\ UNCHANGED <<batch, today, product_eol_date, component, result, call>>

\* if not package_data.get('success'): the candidate URLs are collected
CollectUrls ==
    /\ pc = "fallback"
    /\ frame' = [frame EXCEPT !.urls_to_try = UrlsToTry(component.externalReferences)]
    /\ pc' = "try"
    /\ steps' = steps + 1
    /\ UNCHANGED <<batch, today, product_eol_date, cache, component, result, call, calls>>

\* the outcome of one candidate URL, stored
AfterUrlAnalysis(r) ==
    /\ cache' = r.cache
    /\ calls' = Logged(calls, Call("_analyze_from_url",
                                   <<Head(frame.urls_to_try), component.name, component.version>>),
                       r.ret, r.raised)
    /\ frame' = [frame EXCEPT !.package_data = r.ret, !.urls_to_try = Tail(frame.urls_to_try)]
    /\ pc' = IF r.raised THEN "raised" ELSE IF r.ret.success THEN "repo" ELSE "try"

\* for url in urls_to_try: one turn of the loop, left at the first success
TryUrl ==
    /\ pc = "try"
    /\ frame.urls_to_try # <<>>
    /\ \E net \in Nets :
          AfterUrlAnalysis(AnalyzeFromUrl(cache, Head(frame.urls_to_try), component.name,
                                          component.version, net))
    /\ steps' = steps + 1
    /\ UNCHANGED <<batch, today, product_eol_date, component, result, call>>

\* if not package_data.get('success'): return result, as initialised
GiveUp ==
    /\ pc = "try"
    /\ frame.urls_to_try = <<>>
    /\ result' = Some(InitialResult)
    /\ pc' = "done"
    /\ steps' = steps + 1
    /\ UNCHANGED <<batch, today, product_eol_date, cache, component, frame, call, calls>>

\* the repository snapshot of repo_url when it is a GitHub URL
LookupRepo(repo_url) ==
    IF IsSome(repo_url) /\ Contains(GithubCom, Get(repo_url))
    THEN \E net \in GithubNets :
            \E info \in {GetGithubRepoInfo(cache, Get(repo_url), net)} :
                /\ cache' = info.cache
                /\ frame' = [frame EXCEPT !.repo_data = info.ret]
                /\ calls' = Logged(calls, Call("_get_github_repo_info", <<Get(repo_url)>>),
                                   info.ret, FALSE)
    ELSE /\ frame' = [frame EXCEPT !.repo_data = None]
         /\ UNCHANGED <<cache, calls>>

\* the repository lookup after a successful snapshot
RepoLookup ==
    /\ pc = "repo"
    /\ LookupRepo(RepoUrl(frame.package_data, component.externalReferences))
    /\ pc' = "classify"
    /\ steps' = steps + 1
    /\ UNCHANGED <<batch, today, product_eol_date, component, result, call>>

\* the verdict stored as the call's result and in the returned record
Returning(args, verdict) ==
    /\ call' = [args EXCEPT !.ret = Some(verdict)]
    /\ result' = Some(Result(verdict.support_level, verdict.end_of_life, verdict.confidence,
                             DayOf(args.package_data.latest_date), args.days_since_release,
                             IF IsSome(args.repo_data)
                             THEN DayOf(Get(args.repo_data).last_commit_date) ELSE None))

\* the call of _calculate_support_level with its arguments
Classifying(args) ==
    Returning(args, CalculateSupportLevel(args.package_data, args.repo_data, args.days_since_release,
                                          args.name, args.version, args.ecosystem,
                                          today, product_eol_date))

\* support_level, eol, confidence = self._calculate_support_level(...), and
\* the result returned
ClassifyStep ==
    /\ pc = "classify"
    /\ Classifying(Args(frame.package_data, frame.repo_data, component.name, component.version,
                        IF IsSome(frame.purl_data) THEN Some(Get(frame.purl_data).ecosystem) ELSE None,
                        today))
    /\ pc' = "done"
    /\ steps' = steps + 1
    /\ UNCHANGED <<batch, today, product_eol_date, cache, component, frame, calls>>

Next == PurlLookup \/ CollectUrls \/ TryUrl \/ GiveUp \/ RepoLookup \/ ClassifyStep

Spec == Init /\ [][Next]_vars

\* the components whose runs are followed to their end: a Maven identifier,
\* an ecosystem without a registry, one repository listed three times, and
\* the Boost alias
LiveCatalog ==
    {c \in Catalog : c.name \in {<<"c", "o", "m", "m", "o", "n", "s">>, <<"z">>, <<"d">>, <<"b", "o", "o", "s", "t">>}}

InitLive ==
    /\ today = AnalysisTime
    /\ product_eol_date \in ProductEols
    /\ cache = <<>>
    /\ component \in LiveCatalog
    /\ frame = Frame(None, Failure, <<>>, None)
    /\ result = None
    /\ call = NoCall
    /\ calls = <<>>
    /\ batch = NoBatch
    /\ steps = 0
    /\ pc = "purl"

\* analyze_component has not ended
Running == pc \notin {"done", "raised"}

\* one more statement executed
Proceeds == Running /\ steps' = steps + 1

\* analyze_component runs on until it ends: every network call returns, so
\* the statement reached is eventually executed.  Every action of Next
\* counts one statement, so a step of Next is a step of Proceeds.
SpecLive == InitLive /\ [][Next]_vars /\ WF_steps(Proceeds)

----------------------------------------------------------------------------
(* The classification decision on its own: analyze_component about to
   classify, for every combination of snapshots *)

InitClassify ==
    /\ today \in Todays
    /\ product_eol_date \in ProductEols
    /\ cache = <<>>
    /\ result = None
    /\ call = NoCall
    /\ calls = <<>>
    /\ batch = NoBatch
    /\ steps = 0
    /\ pc = "classify"
    /\ \E d \in ReleaseDates(today), dep \in BOOLEAN,
          name \in Names, version \in Versions, ecosystem \in Ecosystems,
          repo \in {None} \cup {Some(RepoData(a, c, <<"o">>, <<"r">>)) : a \in BOOLEAN, c \in CommitDates(today)} :
            LET purl == IF IsSome(ecosystem)
                        THEN Some(PkgScheme \o Get(ecosystem) \o <<"/">> \o name \o <<"@">> \o version)
                        ELSE None
            IN  /\ component = Component(name, version, purl, <<>>)
                /\ frame = Frame(IF IsSome(purl) THEN ParsePurl(Get(purl)) ELSE None,
                                 PackageData(TRUE, d, dep, None), <<>>, repo)

NextClassify == ClassifyStep

SpecClassify == InitClassify /\ [][NextClassify]_vars

----------------------------------------------------------------------------
(* The framework lifecycle lookup on its own: _get_framework_support applied
   to a framework key and the component's version, then the classification
   of the component *)

MaxVersionLen == 5

VersionChars == {"8", "0", ".", "1"}

\* every version string of at most MaxVersionLen characters
LookupVersions == UNION {[1..n -> VersionChars] : n \in 1..MaxVersionLen}

Frameworks == {"dotnet", "java", "mono"}

InitFramework ==
    /\ today \in Todays
    /\ product_eol_date = None
    /\ cache = <<>>
    /\ \E version \in LookupVersions : component = Component(SystemTextJson, version, None, <<>>)
    /\ frame = Frame(None, PackageData(TRUE, None, FALSE, None), <<>>, None)
    /\ result = None
    /\ call = NoCall
    /\ calls = <<>>
    /\ batch = NoBatch
    /\ steps = 0
    /\ pc = "lookup"

\* support_info = self._get_framework_support(framework, version)
FrameworkLookup ==
    /\ pc = "lookup"
    /\ \E framework \in Frameworks :
          calls' = Logged(calls, Call("_get_framework_support", <<framework, component.version>>),
                          GetFrameworkSupport(framework, component.version), FALSE)
    /\ pc' = "classify"
    /\ steps' = steps + 1
    /\ UNCHANGED <<batch, today, product_eol_date, cache, component, frame, result, call>>

NextFramework == FrameworkLookup \/ ClassifyStep

SpecFramework == InitFramework /\ [][NextFramework]_vars

----------------------------------------------------------------------------
(* The identifier resolver on its own: _parse_purl applied to a string *)

MaxPurlLen == 6

PurlChars == {"a", "/", "@", "?"}

\* every string of at most MaxPurlLen characters, bare and after 'pkg:'
PurlInputs ==
    LET bodies == UNION {[1..n -> PurlChars] : n \in 0..MaxPurlLen}
    IN  bodies \cup {PkgScheme \o body : body \in bodies}

InitPurl ==
    /\ today = AnalysisTime
    /\ product_eol_date = None
    /\ cache = <<>>
    /\ \E purl \in PurlInputs : component = Component(<<"a">>, <<"1">>, Some(purl), <<>>)
    /\ frame = Frame(None, Failure, <<>>, None)
    /\ result = None
    /\ call = NoCall
    /\ calls = <<>>
    /\ batch = NoBatch
    /\ steps = 0
    /\ pc = "parse"

\* purl_data = self._parse_purl(purl)
ParseStep ==
    /\ pc = "parse"
    /\ calls' = Logged(calls, Call("_parse_purl", <<Get(component.purl)>>),
                       ParsePurl(Get(component.purl)), FALSE)
    /\ frame' = [frame EXCEPT !.purl_data = ParsePurl(Get(component.purl))]
    /\ pc' = "parsed"
    /\ steps' = steps + 1
    /\ UNCHANGED <<batch, today, product_eol_date, cache, component, result, call>>

NextPurl == ParseStep

SpecPurl == InitPurl /\ [][NextPurl]_vars

----------------------------------------------------------------------------
(* The version matcher on its own: _get_github_release_for_version applied
   to a version under the answers of the Releases, Tags and Commits
   endpoints *)

Sha2 == <<"9", "a", "0", "c", "3", "b">>

MatcherVersions == {V20, <<"2", ".", "0", ".", "0">>, <<"1", ".", "9">>, <<"3", ".", "0">>, <<"2", ".", "0", "-", "r", "c", "1">>}

MatcherReleases ==
    {NoBody, ListBody(<<>>),
     ListBody(<<Release(<<"v", "1", ".", "0", ".", "0">>, Some(<<"v", "1", ".", "0", ".", "0">>), Some(StaleDate))>>),
     ListBody(<<Release(<<"v", "1", ".", "0", ".", "0">>, Some(<<"v", "1", ".", "0", ".", "0">>), Some(StaleDate)),
                Release(<<"v", "2", ".", "0", ".", "0">>, Some(<<"R", "e", "l", "e", "a", "s", "e", " ", "2", ".", "0", ".", "0">>), Some(FreshDate))>>),
     ListBody(<<Release(<<"v", "1", "2", ".", "0", ".", "0">>, Some(<<"v", "1", "2", ".", "0", ".", "0">>), Some(FreshDate))>>),
     ListBody(<<Release(<<"v", "2", ".", "0">>, Some(<<"v", "2", ".", "0">>), Some(StaleDate)),
                Release(<<"v", "2", ".", "0", "-", "r", "c", "1">>, Some(<<"v", "2", ".", "0", "-", "r", "c", "1">>), Some(FreshDate))>>),
     ListBody(<<Release(<<"v", "2", ".", "0", ".", "0">>, None, Some(StaleDate)),
                Release(<<"v", "2", ".", "0", ".", "0">>, Some(<<"v", "2", ".", "0", ".", "0">>), Some(FreshDate))>>)}

MatcherTags ==
    {NoBody, ListBody(<<>>),
     ListBody(<<Tag(<<"v", "2", ".", "0", ".", "0">>, Some(Sha1)), Tag(<<"v", "1", ".", "9", ".", "0">>, Some(Sha2))>>),
     ListBody(<<Tag(<<"v", "1", ".", "9", ".", "0">>, Some(Sha2)), Tag(<<"v", "2", ".", "0", ".", "0">>, Some(Sha1))>>),
     ListBody(<<Tag(<<"v", "2", ".", "0", ".", "0">>, None)>>)}

\* the answers of the Commits endpoint for the two tagged commits
MatcherCommits ==
    {(Sha1 :> a) @@ (Sha2 :> b) :
        a \in {NoBody, CommitBody(Some(OldCommitDate))},
        b \in {NoBody, CommitBody(Some(StaleDate)), CommitBody(None)}}

MatcherNets ==
    {[NoNet EXCEPT !.releases = r, !.tags = t, !.commit = k] :
        r \in MatcherReleases, t \in MatcherTags, k \in MatcherCommits}

InitMatcher ==
    /\ today = AnalysisTime
    /\ product_eol_date = None
    /\ cache = <<>>
    /\ \E version \in MatcherVersions : component = Component(<<"r">>, version, None, <<>>)
    /\ frame = Frame(None, Failure, <<>>, None)
    /\ result = None
    /\ call = NoCall
    /\ calls = <<>>
    /\ batch = NoBatch
    /\ steps = 0
    /\ pc = "match"

\* the call logged with the answers the upstream gave during it
Matched(net, matched) ==
    /\ cache' = matched.cache
    /\ calls' = Logged(calls, Call("_get_github_release_for_version",
                                   <<<<"o">>, <<"r">>, component.version, net>>),
                       matched.ret, FALSE)

\* version_date = self._get_github_release_for_version(owner, repo, version)
MatchStep ==
    /\ pc = "match"
    /\ \E net \in MatcherNets :
          Matched(net, GetGithubReleaseForVersion(cache, <<"o">>, <<"r">>, component.version, net))
    /\ pc' = "matched"
    /\ steps' = steps + 1
    /\ UNCHANGED <<batch, today, product_eol_date, component, frame, result, call>>

NextMatcher == MatchStep

SpecMatcher == InitMatcher /\ [][NextMatcher]_vars

----------------------------------------------------------------------------
(* The snapshot sources that read GitHub, each on its own: the registry
   dispatch of a pkg:github identifier and _analyze_from_url on a
   github.com URL, a github.io URL and a hard-coded alias *)

GithubSourced ==
    { Component(<<"r">>, V20, Some(<<"p", "k", "g", ":", "g", "i", "t", "h", "u", "b", "/", "o", "/", "r", "@", "2", ".", "0">>), <<>>),
      Component(<<"r">>, V20, None, <<Ref("vcs", <<"h", "t", "t", "p", "s", ":", "/", "/", "g", "i", "t", "h", "u", "b", ".", "c", "o", "m", "/", "o", "/", "r">>)>>),
      Component(<<"r">>, V20, None, <<Ref("website", <<"h", "t", "t", "p", "s", ":", "/", "/", "o", ".", "g", "i", "t", "h", "u", "b", ".", "i", "o", "/", "r">>)>>),
      Component(<<"b", "o", "o", "s", "t">>, V20, None, <<Ref("website", <<"h", "t", "t", "p", "s", ":", "/", "/", "w", "w", "w", ".", "b", "o", "o", "s", "t", ".", "o", "r", "g", "/">>)>>) }

InitSnapshot ==
    /\ today = AnalysisTime
    /\ product_eol_date = None
    /\ cache = <<>>
    /\ component \in GithubSourced
    /\ frame = Frame(None, Failure, <<>>, None)
    /\ result = None
    /\ call = NoCall
    /\ calls = <<>>
    /\ batch = NoBatch
    /\ steps = 0
    /\ pc = "snapshot"

\* the snapshot stored, the call logged with the answers the upstream gave
Snapshot(client, net, r) ==
    /\ cache' = r.cache
    /\ frame' = [frame EXCEPT !.package_data = r.ret]
    /\ calls' = Logged(calls, Call(client.fn, <<client.args, net>>), r.ret, r.raised)

\* package_data from the identifier when there is one, else from the first
\* candidate URL
SnapshotStep ==
    /\ pc = "snapshot"
    /\ \E net \in GithubNets :
          IF IsSome(component.purl)
          THEN Snapshot(Get(PurlClient(Get(ParsePurl(Get(component.purl))), component.version)), net,
                        PurlAnalysis(cache, Get(ParsePurl(Get(component.purl))), component.version, net))
          ELSE Snapshot(Call("_analyze_from_url",
                             <<UrlsToTry(component.externalReferences)[1], component.name, component.version>>),
                        net,
                        AnalyzeFromUrl(cache, UrlsToTry(component.externalReferences)[1],
                                       component.name, component.version, net))
    /\ pc' = "repo"
    /\ steps' = steps + 1
    /\ UNCHANGED <<batch, today, product_eol_date, component, result, call>>

NextSnapshot == SnapshotStep

SpecSnapshot == InitSnapshot /\ [][NextSnapshot]_vars

----------------------------------------------------------------------------
(* The registry clients on their own: _analyze_nuget_package and
   _analyze_pypi_package applied to a name and a version under the answers
   of the registry *)

MaxCatalogLen == 3

ProjectUrl == <<"h", "t", "t", "p", "s", ":", "/", "/", "g", "i", "t", "h", "u", "b", ".", "c", "o", "m", "/", "d", "o", "t", "n", "e", "t", "/", "r", "u", "n", "t", "i", "m", "e">>

LicenseUrl == <<"h", "t", "t", "p", "s", ":", "/", "/", "l", "i", "c", "e", "n", "s", "e", "s", ".", "n", "u", "g", "e", "t", ".", "o", "r", "g", "/", "M", "I", "T">>

HomepageUrl == <<"h", "t", "t", "p", "s", ":", "/", "/", "e", "x", "a", "m", "p", "l", "e", ".", "o", "r", "g", "/">>

V800 == <<"8", ".", "0", ".", "0">>

\* the published instant of an unlisted package: 1900-01-01T00:00:00Z
Sentinel == ParseDate(NugetUnlistedDay)

\* catalog entries: 8.0.1 unlisted with a commit timestamp and a license
\* URL only; 8.0.1 unlisted without a commit timestamp, with a project URL;
\* 8.0.0 listed with both URLs; 9.0.0 unlisted with a commit timestamp and
\* no URL
CatalogItems ==
    { NugetItem(Some(V801), Some(Sentinel), FALSE, Some(FreshDate), None, Some(LicenseUrl)),
      NugetItem(Some(V801), Some(Sentinel), FALSE, None, Some(ProjectUrl), None),
      NugetItem(Some(V800), Some(StaleDate), FALSE, Some(OldCommitDate), Some(ProjectUrl), Some(LicenseUrl)),
      NugetItem(Some(V900), Some(Sentinel), TRUE, Some(OldCommitDate), None, None) }

\* every catalog of at most MaxCatalogLen entries
Catalogs == UNION {[1..n -> CatalogItems] : n \in 1..MaxCatalogLen}

\* the registration index with the entries inline, or on a page to fetch
RegistryNugetNets ==
    {[NoNet EXCEPT !.nuget = NugetBody(<<NugetPage(Some(items), None)>>)] : items \in Catalogs}
    \cup {[NoNet EXCEPT !.nuget = NugetBody(<<NugetPage(None, Some(NugetPage1))>>),
                        !.page = [p \in PageIds |-> NugetBody(items)]] : items \in Catalogs}

\* the PyPI answer with each of project_urls' Source, Repository and
\* Homepage present or not
RegistryPypiNets ==
    {[NoNet EXCEPT !.pypi = PypiBody(V801 :> <<Some(FreshDate)>>, Some(V801), a, b, h)] :
        a \in {None, Some(ProjectUrl)}, b \in {None, Some(<<"h", "t", "t", "p", "s", ":", "/", "/", "g", "i", "t", "h", "u", "b", ".", "c", "o", "m", "/", "d", "o", "t", "n", "e", "t", "/", "c", "o", "r", "e">>)},
        h \in {None, Some(HomepageUrl)}}

InitRegistry ==
    /\ today = AnalysisTime
    /\ product_eol_date = None
    /\ cache = <<>>
    /\ \E version \in {V801, V700} : component = Component(SystemTextJson, version, None, <<>>)
    /\ frame = Frame(None, Failure, <<>>, None)
    /\ result = None
    /\ call = NoCall
    /\ calls = <<>>
    /\ batch = NoBatch
    /\ steps = 0
    /\ pc = "lookup"

\* package_data = self._analyze_nuget_package(pkg_name, pkg_version)
NugetStep ==
    /\ pc = "lookup"
    /\ \E net \in RegistryNugetNets :
          Snapshot(Call("_analyze_nuget_package", <<component.name, component.version>>), net,
                   AnalyzeNugetPackage(cache, component.name, component.version, net))
    /\ pc' = "repo"
    /\ steps' = steps + 1
    /\ UNCHANGED <<batch, today, product_eol_date, component, result, call>>

\* package_data = self._analyze_pypi_package(pkg_name, pkg_version)
PypiStep ==
    /\ pc = "lookup"
    /\ \E net \in RegistryPypiNets :
          Snapshot(Call("_analyze_pypi_package", <<component.name, component.version>>), net,
                   AnalyzePypiPackage(cache, component.name, component.version, net))
    /\ pc' = "repo"
    /\ steps' = steps + 1
    /\ UNCHANGED <<batch, today, product_eol_date, component, result, call>>

NextRegistry == NugetStep \/ PypiStep

SpecRegistry == InitRegistry /\ [][NextRegistry]_vars

----------------------------------------------------------------------------
(* The request cache on its own: _make_request called again and again on
   one analyzer, the upstream free to answer differently each time *)

MaxRequests == 3

RequestUrls == {<<"https://api.github.com/repos/", "o", "/", "r">>, <<"https://registry.npmjs.org/", "p">>}

\* what the upstream has to offer: a failure, two objects, an empty list
RequestAnswers == {NoBody, GithubRepoBody(FALSE), GithubRepoBody(TRUE), ListBody(<<>>)}

InitRequest ==
    /\ today = AnalysisTime
    /\ product_eol_date = None
    /\ cache = <<>>
    /\ component = Component(<<"r">>, V20, None, <<>>)
    /\ frame = Frame(None, Failure, <<>>, None)
    /\ result = None
    /\ call = NoCall
    /\ calls = <<>>
    /\ batch = NoBatch
    /\ steps = 0
    /\ pc = "request"

\* the request answered, logged with what the upstream had to offer
Requested(url, answer, r) ==
    /\ cache' = r.cache
    /\ calls' = Logged(calls, Call("_make_request", <<url, answer>>), r.data, FALSE)

\* data = self._make_request(url)
RequestStep ==
    /\ pc = "request"
    /\ Len(calls) < MaxRequests
    /\ \E url \in RequestUrls, answer \in RequestAnswers :
          Requested(url, answer, MakeRequest(cache, url, answer))
    /\ steps' = steps + 1
    /\ UNCHANGED <<batch, today, product_eol_date, component, frame, result, call, pc>>

NextRequest == RequestStep

SpecRequest == InitRequest /\ [][NextRequest]_vars

----------------------------------------------------------------------------
(* The batch: the loop of analyze_sbom over the components of one SBOM, one
   analyzer (and so one cache) shared by all of them *)

MaxComponents == 2

\* the components the SBOMs are made of: no registry (cargo), a GitHub purl,
\* reference URLs only
BatchCatalog ==
    { Component(<<"z">>, <<"1", ".", "0">>, Some(<<"p", "k", "g", ":", "c", "a", "r", "g", "o", "/", "z", "@", "1", ".", "0">>), <<>>),
      Component(<<"r">>, V20, Some(<<"p", "k", "g", ":", "g", "i", "t", "h", "u", "b", "/", "o", "/", "r", "@", "2", ".", "0">>), <<>>),
      Component(<<"x">>, V20, None, <<Ref("website", <<"h", "t", "t", "p", "s", ":", "/", "/", "e", "x", "a", "m", "p", "l", "e", ".", "o", "r", "g", "/", "x">>), Ref("vcs", <<"h", "t", "t", "p", "s", ":", "/", "/", "g", "i", "t", "h", "u", "b", ".", "c", "o", "m", "/", "o", "/", "r">>)>>) }

\* components = sbom.get('components', [])
Sboms == UNION {[1..n -> BatchCatalog] : n \in 0..MaxComponents}

\* results with the order of arrival reversed
Appended_Front(results, r) == <<r>> \o results

\* results.append(result)
Appended(results, r) == Append(results, r)

\* the result dict with the name and version analyze_component puts in it
Named(c, r) == [name |-> c.name, version |-> c.version] @@ r

\* analyzer = ComponentAnalyzer(...); results = []
InitBatch ==
    /\ today = AnalysisTime
    /\ product_eol_date = None
    /\ cache = <<>>
    /\ component = Component(<<>>, <<>>, None, <<>>)
    /\ frame = Frame(None, Failure, <<>>, None)
    /\ result = None
    /\ call = NoCall
    /\ calls = <<>>
    /\ \E components \in Sboms : batch = Batch(components, 0, <<>>)
    /\ steps = 0
    /\ pc = "loop"

\* for i, component in enumerate(components, 1): the next component handed
\* to analyzer.analyze_component
NextComponent ==
    /\ pc = "loop"
    /\ batch.i < Len(batch.components)
    /\ batch' = [batch EXCEPT !.i = batch.i + 1]
    /\ component' = batch.components[batch.i + 1]
    /\ frame' = Frame(None, Failure, <<>>, None)
    /\ result' = None
    /\ call' = NoCall
    /\ pc' = "purl"
    /\ steps' = steps + 1
    /\ UNCHANGED <<today, product_eol_date, cache, calls>>

\* result = analyzer.analyze_component(component) returned;
\* results.append(result)
AppendResult ==
    /\ pc = "done"
    /\ batch' = [batch EXCEPT !.results = Appended(batch.results, Named(component, Get(result)))]
    /\ calls' = Logged(calls, Call("analyze_component", <<component>>), Named(component, Get(result)), FALSE)
    /\ pc' = "loop"
    /\ steps' = steps + 1
    /\ UNCHANGED <<today, product_eol_date, cache, component, frame, result, call>>

\* the loop exhausted: the summary is printed
EndOfLoop ==
    /\ pc = "loop"
    /\ batch.i = Len(batch.components)
    /\ pc' = "summary"
    /\ steps' = steps + 1
    /\ UNCHANGED <<batch, today, product_eol_date, cache, component, frame, result, call, calls>>

NextBatch ==
    \/ NextComponent
    \/ PurlLookup \/ CollectUrls \/ TryUrl \/ GiveUp \/ RepoLookup \/ ClassifyStep
    \/ AppendResult
    \/ EndOfLoop

SpecBatch == InitBatch /\ [][NextBatch]_vars

----------------------------------------------------------------------------
(* Framework detection on its own: _detect_framework applied to a component
   name under each ecosystem hint *)

\* beginnings of names: the literals of the pattern table in several
\* cases, the prefixes of the nuget hint, and names of no framework
NamePrefixes ==
    {<<"S", "y", "s", "t", "e", "m", ".">>, <<"s", "y", "s", "t", "e", "m", ".">>, <<"S", "Y", "S", "T", "E", "M", ".">>, <<"M", "i", "c", "r", "o", "s", "o", "f", "t", ".">>, <<"m", "i", "c", "r", "o", "s", "o", "f", "t", ".">>, <<"M", "i", "c", "r", "o", "s", "o", "f", "t", ".", "N", "E", "T", "C", "o", "r", "e", ".">>,
     <<"M", "i", "c", "r", "o", "s", "o", "f", "t", ".", "E", "x", "t", "e", "n", "s", "i", "o", "n", "s", ".">>, <<"r", "u", "n", "t", "i", "m", "e", ".">>, <<"R", "u", "n", "t", "i", "m", "e", ".">>, <<"r", "u", "n", "t", "i", "m", "e", ".", "n", "a", "t", "i", "v", "e", ".">>, <<"N", "E", "T", "S", "t", "a", "n", "d", "a", "r", "d", ".", "L", "i", "b", "r", "a", "r", "y">>,
     <<"j", "a", "v", "a", ".">>, <<"J", "a", "v", "a", "x", ".">>, <<"j", "a", "k", "a", "r", "t", "a", ".">>, <<"p", "y", "t", "h", "o", "n">>, <<"C", "P", "y", "t", "h", "o", "n">>, <<"n", "o", "d", "e">>, <<"n", "o", "d", "e", "j", "s">>, <<"s", "p", "r", "i", "n", "g", "-">>,
     <<"o", "r", "g", ".", "s", "p", "r", "i", "n", "g", "f", "r", "a", "m", "e", "w", "o", "r", "k", ".">>, <<"l", "o", "d", "a", "s", "h">>, <<"m", "y", ".", "S", "y", "s", "t", "e", "m", ".">>, <<>>}

NameSuffixes == {<<>>, <<"T", "e", "x", "t">>, <<"3">>}

DetectNames == {p \o x : p \in NamePrefixes, x \in NameSuffixes}

EcosystemHints == {None, Some(<<"n", "u", "g", "e", "t">>), Some(<<"n", "p", "m">>), Some(<<"m", "a", "v", "e", "n">>)}

InitDetect ==
    /\ today = AnalysisTime
    /\ product_eol_date = None
    /\ cache = <<>>
    /\ \E name \in DetectNames : component = Component(name, V20, None, <<>>)
    /\ frame = Frame(None, Failure, <<>>, None)
    /\ result = None
    /\ call = NoCall
    /\ calls = <<>>
    /\ batch = NoBatch
    /\ steps = 0
    /\ pc = "detect"

\* framework = self._detect_framework(name, ecosystem)
DetectStep ==
    /\ pc = "detect"
    /\ \E ecosystem \in EcosystemHints :
          calls' = Logged(calls, Call("_detect_framework", <<component.name, ecosystem>>),
                          DetectFramework(component.name, ecosystem), FALSE)
    /\ pc' = "detected"
    /\ steps' = steps + 1
    /\ UNCHANGED <<batch, today, product_eol_date, cache, component, frame, result, call>>

NextDetect == DetectStep

SpecDetect == InitDetect /\ [][NextDetect]_vars

----------------------------------------------------------------------------
(* The registry re-routing of the URL fallback on its own: _analyze_from_url
   applied to a reference URL on a registry's web site *)

\* The registry client the registry branches of _analyze_from_url call for
\* url, with the coordinates their regular expressions take from it; None
\* for any other url and when the expression does not match.
UrlClient(url, version) ==
    IF \/ Contains(GithubCom, url) \/ Contains(<<"g", "i", "t", "h", "u", "b", ".", "i", "o">>, url)
       \/ Contains(<<"g", "i", "t", "l", "a", "b", ".">>, url) \/ Contains(<<"b", "i", "t", "b", "u", "c", "k", "e", "t", ".", "o", "r", "g">>, url)
       \/ Contains(<<"g", "o", "o", "g", "l", "e", "s", "o", "u", "r", "c", "e", ".", "c", "o", "m">>, url)
    THEN None
    ELSE IF Contains(<<"n", "p", "m", "j", "s", ".", "c", "o", "m">>, url) \/ Contains(<<"n", "p", "m", "j", "s", ".", "o", "r", "g">>, url)
    THEN LET i1 == SegsStart(url, <<"n", "p", "m", "j", "s", ".", "c", "o", "m", "/", "p", "a", "c", "k", "a", "g", "e", "/">>, 1)
             i2 == SegsStart(url, <<"n", "p", "m", "j", "s", ".", "o", "r", "g", "/", "p", "a", "c", "k", "a", "g", "e", "/">>, 1)
         IN  IF i1 = 0 /\ i2 = 0 THEN None
             ELSE IF i1 # 0 /\ (i2 = 0 \/ i1 < i2)
             THEN Some(Call("_analyze_npm_package", <<Get(LitThenSegs(url, <<"n", "p", "m", "j", "s", ".", "c", "o", "m", "/", "p", "a", "c", "k", "a", "g", "e", "/">>, 1))[1], version>>))
             ELSE Some(Call("_analyze_npm_package", <<Get(LitThenSegs(url, <<"n", "p", "m", "j", "s", ".", "o", "r", "g", "/", "p", "a", "c", "k", "a", "g", "e", "/">>, 1))[1], version>>))
    ELSE IF Contains(<<"p", "y", "p", "i", ".", "o", "r", "g">>, url) \/ Contains(<<"p", "y", "p", "i", ".", "p", "y", "t", "h", "o", "n", ".", "o", "r", "g">>, url)
    THEN IF IsSome(LitThenSegs(url, <<"p", "y", "p", "i", ".", "o", "r", "g", "/", "p", "r", "o", "j", "e", "c", "t", "/">>, 1))
         THEN Some(Call("_analyze_pypi_package", <<Get(LitThenSegs(url, <<"p", "y", "p", "i", ".", "o", "r", "g", "/", "p", "r", "o", "j", "e", "c", "t", "/">>, 1))[1], version>>))
         ELSE None
    ELSE IF Contains(<<"n", "u", "g", "e", "t", ".", "o", "r", "g">>, url)
    THEN IF IsSome(LitThenSegs(url, <<"n", "u", "g", "e", "t", ".", "o", "r", "g", "/", "p", "a", "c", "k", "a", "g", "e", "s", "/">>, 1))
         THEN Some(Call("_analyze_nuget_package", <<Get(LitThenSegs(url, <<"n", "u", "g", "e", "t", ".", "o", "r", "g", "/", "p", "a", "c", "k", "a", "g", "e", "s", "/">>, 1))[1], version>>))
         ELSE None
    ELSE IF Contains(<<"m", "a", "v", "e", "n">>, url) \/ Contains(<<"m", "v", "n", "r", "e", "p", "o", "s", "i", "t", "o", "r", "y", ".", "c", "o", "m">>, url)
    THEN IF IsSome(ThreeSegs(url))
         THEN Some(Call("_analyze_maven_package", <<Get(ThreeSegs(url))[1], Get(ThreeSegs(url))[2], version>>))
         ELSE None
    ELSE None

MavenBrowserUrl == <<"h", "t", "t", "p", "s", ":", "/", "/", "m", "v", "n", "r", "e", "p", "o", "s", "i", "t", "o", "r", "y", ".", "c", "o", "m", "/", "a", "r", "t", "i", "f", "a", "c", "t", "/", "o", "r", "g", ".", "a", "p", "a", "c", "h", "e", "/", "c", "o", "m", "m", "o", "n", "s">>

\* components with one reference each, on a registry's web site
RegistrySited ==
    { Component(<<"c", "o", "m", "m", "o", "n", "s">>, <<"1", ".", "0">>, None, <<Ref("website", MavenBrowserUrl)>>),
      Component(<<"c", "o", "m", "m", "o", "n", "s">>, <<"1", ".", "0">>, None, <<Ref("distribution", <<"h", "t", "t", "p", "s", ":", "/", "/", "r", "e", "p", "o", "1", ".", "m", "a", "v", "e", "n", ".", "o", "r", "g", "/", "m", "a", "v", "e", "n", "2", "/", "o", "r", "g", ".", "a", "p", "a", "c", "h", "e", "/", "c", "o", "m", "m", "o", "n", "s">>)>>),
      Component(Lodash, V41721, None, <<Ref("website", <<"h", "t", "t", "p", "s", ":", "/", "/", "w", "w", "w", ".", "n", "p", "m", "j", "s", ".", "c", "o", "m", "/", "p", "a", "c", "k", "a", "g", "e", "/", "l", "o", "d", "a", "s", "h">>)>>),
      Component(Lodash, V41721, None, <<Ref("website", <<"h", "t", "t", "p", "s", ":", "/", "/", "n", "p", "m", "j", "s", ".", "o", "r", "g", "/", "p", "a", "c", "k", "a", "g", "e", "/", "l", "o", "d", "a", "s", "h", "/", "v", "/", "4", ".", "1", "7", ".", "2", "1">>)>>),
      Component(<<"r", "e", "q", "u", "e", "s", "t", "s">>, V20, None, <<Ref("website", <<"h", "t", "t", "p", "s", ":", "/", "/", "p", "y", "p", "i", ".", "o", "r", "g", "/", "p", "r", "o", "j", "e", "c", "t", "/", "r", "e", "q", "u", "e", "s", "t", "s", "/">>)>>),
      Component(<<"r", "e", "q", "u", "e", "s", "t", "s">>, V20, None, <<Ref("website", <<"h", "t", "t", "p", "s", ":", "/", "/", "p", "y", "p", "i", ".", "p", "y", "t", "h", "o", "n", ".", "o", "r", "g", "/", "p", "y", "p", "i", "/", "r", "e", "q", "u", "e", "s", "t", "s">>)>>),
      Component(SystemTextJson, V801, None, <<Ref("website", <<"h", "t", "t", "p", "s", ":", "/", "/", "w", "w", "w", ".", "n", "u", "g", "e", "t", ".", "o", "r", "g", "/", "p", "a", "c", "k", "a", "g", "e", "s", "/", "S", "y", "s", "t", "e", "m", ".", "T", "e", "x", "t", ".", "J", "s", "o", "n">>)>>),
      Component(SystemTextJson, V801, None, <<Ref("website", <<"h", "t", "t", "p", "s", ":", "/", "/", "w", "w", "w", ".", "n", "u", "g", "e", "t", ".", "o", "r", "g", "/", "p", "r", "o", "f", "i", "l", "e", "s", "/", "d", "o", "t", "n", "e", "t">>)>>) }

UrlNets == {NoNet} \cup NugetNets \cup NpmNets \cup MavenNets \cup RegistryPypiNets

InitUrl ==
    /\ today = AnalysisTime
    /\ product_eol_date = None
    /\ cache = <<>>
    /\ component \in RegistrySited
    /\ frame = Frame(None, Failure, <<component.externalReferences[1].url>>, None)
    /\ result = None
    /\ call = NoCall
    /\ calls = <<>>
    /\ batch = NoBatch
    /\ steps = 0
    /\ pc = "try"

\* the log extended by the registry client's call, when one is made
LoggedClient(log, client, c, net) ==
    IF IsSome(client)
    THEN Logged(log, Get(client), Invoke(c, Get(client), net).ret, Invoke(c, Get(client), net).raised)
    ELSE log

\* _analyze_from_url returned r: the registry client's call, then its own,
\* logged with the answers the upstream gave
Rerouted(url, net, r) ==
    /\ cache' = r.cache
    /\ calls' = Logged(LoggedClient(calls, UrlClient(url, component.version), cache, net),
                       Call("_analyze_from_url", <<url, component.name, component.version, net>>),
                       r.ret, r.raised)

\* package_data = self._analyze_from_url(url, name, version)
UrlStep ==
    /\ pc = "try"
    /\ \E net \in UrlNets :
          Rerouted(Head(frame.urls_to_try), net,
                   AnalyzeFromUrl(cache, Head(frame.urls_to_try), component.name, component.version, net))
    /\ pc' = "tried"
    /\ steps' = steps + 1
    /\ UNCHANGED <<batch, today, product_eol_date, component, frame, result, call>>

NextUrl == UrlStep

SpecUrl == InitUrl /\ [][NextUrl]_vars

----------------------------------------------------------------------------
(* The repository lookup on its own: _get_github_repo_info applied to a
   GitHub URL *)

RepoUrls ==
    {<<"h", "t", "t", "p", "s", ":", "/", "/", "g", "i", "t", "h", "u", "b", ".", "c", "o", "m", "/", "o", "/", "r">>, <<"h", "t", "t", "p", "s", ":", "/", "/", "g", "i", "t", "h", "u", "b", ".", "c", "o", "m", "/", "o", "/", "r", ".", "g", "i", "t">>, <<"h", "t", "t", "p", "s", ":", "/", "/", "g", "i", "t", "h", "u", "b", ".", "c", "o", "m", "/", "o", "/", "r", ".", "g", "i", "t", "/", "t", "r", "e", "e", "/", "m", "a", "i", "n">>,
     <<"g", "i", "t", "@", "g", "i", "t", "h", "u", "b", ".", "c", "o", "m", ":", "o", "/", "r", ".", "g", "i", "t">>, <<"h", "t", "t", "p", "s", ":", "/", "/", "g", "i", "t", "h", "u", "b", ".", "c", "o", "m", "/", "o", "/", "r", "/">>, <<"h", "t", "t", "p", "s", ":", "/", "/", "g", "i", "t", "h", "u", "b", ".", "c", "o", "m", "/", "u", "s", "e", "r", "/", "u", "s", "e", "r", ".", "g", "i", "t", "h", "u", "b", ".", "i", "o">>,
     <<"h", "t", "t", "p", "s", ":", "/", "/", "g", "i", "t", "h", "u", "b", ".", "c", "o", "m", "/", "o", "/", "m", "y", ".", "g", "i", "t", "i", "g", "n", "o", "r", "e">>, <<"h", "t", "t", "p", "s", ":", "/", "/", "g", "i", "t", "h", "u", "b", ".", "c", "o", "m", "/", "o">>}

InitRepo ==
    /\ today = AnalysisTime
    /\ product_eol_date = None
    /\ cache = <<>>
    /\ \E url \in RepoUrls : component = Component(<<"r">>, V20, None, <<Ref("vcs", url)>>)
    /\ frame = Frame(None, Failure, <<>>, None)
    /\ result = None
    /\ call = NoCall
    /\ calls = <<>>
    /\ batch = NoBatch
    /\ steps = 0
    /\ pc = "repo"

\* the lookup returned info, logged with the answers the upstream gave
RepoInfoReturned(url, net, info) ==
    /\ cache' = info.cache
    /\ frame' = [frame EXCEPT !.repo_data = info.ret]
    /\ calls' = Logged(calls, Call("_get_github_repo_info", <<url, net>>), info.ret, FALSE)

\* repo_data = self._get_github_repo_info(repo_url)
RepoInfoStep ==
    /\ pc = "repo"
    /\ \E net \in GithubNets :
          RepoInfoReturned(component.externalReferences[1].url, net,
                           GetGithubRepoInfo(cache, component.externalReferences[1].url, net))
    /\ pc' = "looked-up"
    /\ steps' = steps + 1
    /\ UNCHANGED <<batch, today, product_eol_date, component, result, call>>

NextRepo == RepoInfoStep

SpecRepo == InitRepo /\ [][NextRepo]_vars

----------------------------------------------------------------------------
(* Properties of the classification decision *)

\* _calculate_support_level has returned
Returned == IsSome(call.ret)

Ret == Get(call.ret)

\* the lifecycle entry the call's name, ecosystem and version resolve to
LifecycleEntry ==
    LET framework == DetectFramework(call.name, call.ecosystem)
    IN  IF IsSome(framework) THEN GetFrameworkSupport(Get(framework), call.version) ELSE None

FrameworkDetected == IsSome(DetectFramework(call.name, call.ecosystem))

FrameworkResolved == IsSome(LifecycleEntry)

Deprecated == call.package_data.deprecated

Archived == IsSome(call.repo_data) /\ Get(call.repo_data).archived

HasReleaseDate == IsSome(call.package_data.latest_date)

\* whole days from the release to today
ReleaseAge == DaysBetween(today, Get(call.package_data.latest_date))

\* the repository's last commit is at most 730 days before today
CommitsWithin24Months ==
    /\ IsSome(call.repo_data)
    /\ IsSome(Get(call.repo_data).last_commit_date)
    /\ DaysBetween(today, Get(Get(call.repo_data).last_commit_date)) <= 730

\* the 'YYYY-MM-DD' of the last known release, 'Unknown' without one
LastReleaseDay ==
    IF HasReleaseDate
    THEN DateString(FormatDate(Get(call.package_data.latest_date)))
    ELSE Text("Unknown")

\* C1 as stated: a deprecated snapshot is always classified ABANDONED with
\* confidence HIGH, whether or not a framework lifecycle entry resolves.
C1_DeprecationAlwaysWins ==
    (Returned /\ Deprecated) =>
        (Ret.support_level = "ABANDONED" /\ Ret.confidence = "HIGH")

\* C1 amended: a deprecated snapshot whose name and version resolve to no
\* framework lifecycle entry is classified ABANDONED with confidence HIGH,
\* whatever the release age.
C1_DeprecationWinsUnlessFramework ==
    (Returned /\ Deprecated /\ ~FrameworkResolved) =>
        (Ret.support_level = "ABANDONED" /\ Ret.confidence = "HIGH")

\* a deprecated package released today, of a framework family whose version
\* resolves to no entry, was classified ABANDONED
C1_Witness ==
    /\ Returned /\ Deprecated /\ FrameworkDetected /\ ~FrameworkResolved
    /\ HasReleaseDate /\ ReleaseAge = 0
    /\ Ret.support_level = "ABANDONED"

\* C2 as stated: a component whose name is detected as a framework's (by
\* pattern or by the NuGet hint) never gets its verdict from the age tiers.
C2_DetectedNeverAgeTiered ==
    (Returned /\ FrameworkDetected) => Ret.step # "age"

\* C2 amended: a component whose name is detected as a framework's and whose
\* version resolves to a lifecycle entry never gets its verdict from the age
\* tiers, whatever the release age.
C2_ResolvedNeverAgeTiered ==
    (Returned /\ FrameworkResolved) => Ret.step # "age"

\* a framework component released more than 1825 days ago was classified
C2_Witness ==
    /\ Returned /\ FrameworkResolved
    /\ HasReleaseDate /\ ReleaseAge > 1825
    /\ ~Deprecated /\ ~Archived

\* C3: with a resolved lifecycle entry (eolDate, tier) the verdict is
\* (ACTIVELY_MAINTAINED, eolDate, HIGH) when eolDate is a day after today's
\* and the tier is not EOL, and (NO_LONGER_MAINTAINED, eolDate, HIGH) otherwise.
C3_FrameworkOutcome ==
    (Returned /\ FrameworkResolved) =>
        LET eolDate == Get(LifecycleEntry)[1]
            tier == Get(LifecycleEntry)[2]
        IN  /\ Ret.end_of_life = DateString(eolDate)
            /\ Ret.confidence = "HIGH"
            /\ Ret.support_level =
                 IF eolDate > FormatDate(today) /\ tier # "EOL"
                 THEN "ACTIVELY_MAINTAINED" ELSE "NO_LONGER_MAINTAINED"

\* a framework of tier LTS whose end-of-life day is today was classified
\* NO_LONGER_MAINTAINED
C3_Witness ==
    /\ Returned /\ FrameworkResolved
    /\ Get(LifecycleEntry)[2] = "LTS"
    /\ Get(LifecycleEntry)[1] = FormatDate(today)
    /\ Ret.support_level = "NO_LONGER_MAINTAINED"

\* C6: without a resolved framework entry, deprecation or archival, a release
\* at most 1825 days old is ACTIVELY_MAINTAINED, its end-of-life the product
\* end-of-life date or 'Not specified', its confidence HIGH when the last
\* commit is at most 730 days old and MEDIUM otherwise.
C6_LenientTier ==
    (Returned /\ ~FrameworkResolved /\ ~Deprecated /\ ~Archived
       /\ HasReleaseDate /\ ReleaseAge <= 1825) =>
        /\ Ret.support_level = "ACTIVELY_MAINTAINED"
        /\ Ret.end_of_life =
             IF IsSome(product_eol_date) THEN Get(product_eol_date) ELSE Text("Not specified")
        /\ Ret.confidence = IF CommitsWithin24Months THEN "HIGH" ELSE "MEDIUM"

\* a release exactly 1825 days old, the last commit 731 days old, no product
\* end-of-life date: ACTIVELY_MAINTAINED, MEDIUM
C6_Witness ==
    /\ Returned /\ ~FrameworkResolved /\ ~Deprecated /\ ~Archived
    /\ HasReleaseDate /\ ReleaseAge = 1825
    /\ IsSome(call.repo_data) /\ ~CommitsWithin24Months
    /\ IsSome(Get(call.repo_data).last_commit_date)
    /\ ~IsSome(product_eol_date)
    /\ Ret.support_level = "ACTIVELY_MAINTAINED" /\ Ret.confidence = "MEDIUM"

\* C7: without a resolved framework entry, deprecation or archival, a release
\* more than 1825 days old is NO_LONGER_MAINTAINED with confidence MEDIUM and
\* end-of-life the day of the last release.
C7_StaleTier ==
    (Returned /\ ~FrameworkResolved /\ ~Deprecated /\ ~Archived
       /\ HasReleaseDate /\ ReleaseAge > 1825) =>
        /\ Ret.support_level = "NO_LONGER_MAINTAINED"
        /\ Ret.confidence = "MEDIUM"
        /\ Ret.end_of_life = DateString(FormatDate(Get(call.package_data.latest_date)))

\* Scenario B: released 2016-03-23, today 2024-01-01, a product end-of-life
\* date configured
C7_Witness ==
    /\ Returned /\ call.name = Lodash /\ ~Deprecated /\ ~Archived
    /\ today = ParseDate(19723)
    /\ call.package_data.latest_date = Some(ParseDate(16883))
    /\ IsSome(product_eol_date)
    /\ Ret.support_level = "NO_LONGER_MAINTAINED"
    /\ Ret.end_of_life = DateString(16883)

\* what C8 says of the other rules: deprecation, archival and a resolved
\* framework give HIGH, and NONE is given only without a resolved framework
\* entry, deprecation, archival or a release date
C8_OtherRules ==
    /\ Ret.step \in {"framework", "deprecated", "archived"} => Ret.confidence = "HIGH"
    /\ Ret.confidence = "NONE" =>
          (~FrameworkResolved /\ ~Deprecated /\ ~Archived /\ ~HasReleaseDate)

\* C8 as stated: a verdict of either age tier has confidence MEDIUM, raised
\* to HIGH whenever the last commit is within 24 months.
C8_CommitsAlwaysUpgrade ==
    Returned =>
        /\ Ret.step = "age" =>
              Ret.confidence = IF CommitsWithin24Months THEN "HIGH" ELSE "MEDIUM"
        /\ C8_OtherRules

\* C8 amended: a verdict of the tier of at most 1825 days has confidence
\* MEDIUM, raised to HIGH when the last commit is within 24 months; a verdict
\* of the tier beyond 1825 days has MEDIUM whatever the commit activity.
C8_CommitsUpgradeLenientTierOnly ==
    Returned =>
        /\ Ret.step = "age" =>
              Ret.confidence = IF CommitsWithin24Months /\ ReleaseAge <= 1825
                               THEN "HIGH" ELSE "MEDIUM"
        /\ C8_OtherRules

\* a release more than 1825 days old with a commit today got MEDIUM
C8_Witness ==
    /\ Returned /\ Ret.step = "age"
    /\ ReleaseAge > 1825
    /\ IsSome(call.repo_data)
    /\ Get(call.repo_data).last_commit_date = Some(today)
    /\ Ret.confidence = "MEDIUM"

\* C10: a snapshot without a release date, with no resolved framework entry,
\* is UNKNOWN / NONE / 'Cannot determine' when neither deprecated nor
\* archived, and ABANDONED when deprecated or archived.
C10_UnknownRule ==
    (Returned /\ call.package_data.success /\ ~HasReleaseDate /\ ~FrameworkResolved) =>
        IF Deprecated \/ Archived
        THEN Ret.support_level = "ABANDONED"
        ELSE /\ Ret.support_level = "UNKNOWN"
             /\ Ret.confidence = "NONE"
             /\ Ret.end_of_life = Text("Cannot determine")

\* a snapshot without a release date whose repository is known, not archived
\* and has commits today was classified UNKNOWN
C10_Witness ==
    /\ Returned /\ call.package_data.success /\ ~HasReleaseDate /\ ~FrameworkResolved
    /\ ~Deprecated /\ IsSome(call.repo_data) /\ ~Archived
    /\ Get(call.repo_data).last_commit_date = Some(today)
    /\ Ret.support_level = "UNKNOWN"

----------------------------------------------------------------------------
(* Properties of the resolution chain *)

\* analyze_component has returned a result
Done == pc = "done"

\* the ecosystem analyze_component passes on: the parsed purl's, if any
ComponentEcosystem ==
    IF IsSome(frame.purl_data) THEN Some(Get(frame.purl_data).ecosystem) ELSE None

\* the verdict the framework lifecycle table gives the component, if any
TableVerdict == FrameworkStep(component.name, component.version, ComponentEcosystem, today)

\* neither the registry nor any candidate URL gave a snapshot
AllLookupsFailed == ~frame.package_data.success

\* C4: a component whose registry and URL lookups all failed but whose name
\* and version resolve to a framework lifecycle entry is returned with the
\* framework verdict, not UNKNOWN / NONE.
C4_FrameworkTableStillConsulted ==
    (Done /\ AllLookupsFailed /\ IsSome(TableVerdict)) =>
        /\ Get(result).support_level = Get(TableVerdict).support_level
        /\ Get(result).end_of_life = Get(TableVerdict).end_of_life
        /\ Get(result).confidence = "HIGH"

\* C5: whatever the upstreams answer, no exception leaves a registry client
\* or analyze_component: the analysis of a component never ends raised.
C5_NoExceptionEscapes == pc # "raised"

\* the component's purl is of the github type
IsGithubPurl == IsSome(frame.purl_data) /\ Get(frame.purl_data).ecosystem = <<"g", "i", "t", "h", "u", "b">>

\* the repository host reported archived = true: in the repository snapshot,
\* or in the snapshot of a pkg:github component, whose deprecation flag is
\* the archival flag
ArchivalReported == Archived \/ (IsGithubPurl /\ Deprecated)

\* the 'YYYY-MM-DD' of the last known date: the snapshot's date, else the
\* repository's last commit, None when neither is known
LastKnownDay ==
    IF HasReleaseDate THEN Some(DateString(FormatDate(Get(call.package_data.latest_date))))
    ELSE IF IsSome(call.repo_data) /\ IsSome(Get(call.repo_data).last_commit_date)
    THEN Some(DateString(FormatDate(Get(Get(call.repo_data).last_commit_date))))
    ELSE None

\* C9 as stated: with no framework entry resolved and archival reported, the
\* verdict is ABANDONED with confidence HIGH and the end-of-life is the last
\* known release or commit date.
C9_EolIsLastKnownDate ==
    (Done /\ Returned /\ ~FrameworkResolved /\ ArchivalReported) =>
        /\ Ret.support_level = "ABANDONED" /\ Get(result).support_level = "ABANDONED"
        /\ Ret.confidence = "HIGH" /\ Get(result).confidence = "HIGH"
        /\ IsSome(LastKnownDay) => Get(result).end_of_life = Get(LastKnownDay)

\* C9 amended: with no framework entry resolved and archival reported, the
\* verdict is ABANDONED with confidence HIGH, whatever the release age and
\* the commit recency, and the end-of-life is the day of the snapshot's date
\* (the release date, or the last commit date for a pkg:github component), or
\* 'Unknown' when the snapshot has no date, even if the repository's last
\* commit date is known.
C9_ArchivalRule ==
    (Done /\ Returned /\ ~FrameworkResolved /\ ArchivalReported) =>
        /\ Ret.support_level = "ABANDONED" /\ Get(result).support_level = "ABANDONED"
        /\ Ret.confidence = "HIGH" /\ Get(result).confidence = "HIGH"
        /\ Get(result).end_of_life = LastReleaseDay

\* a pkg:github component whose repository is archived and had a commit ten
\* days before the analysis was returned ABANDONED with that commit's day as
\* end-of-life
C9_Witness ==
    /\ Done /\ Returned /\ ~FrameworkResolved
    /\ IsGithubPurl /\ Deprecated
    /\ call.package_data.latest_date = Some(FreshDate)
    /\ Get(result).support_level = "ABANDONED"
    /\ Get(result).confidence = "HIGH"
    /\ Get(result).end_of_life = DateString(FormatDate(FreshDate))

----------------------------------------------------------------------------
(* Properties of the framework lifecycle lookup *)

\* the calls of fn made so far, as positions of the log
CallsOf(fn) == {i \in 1..Len(calls) : calls[i].fn = fn}

\* version begins with major.minor, two dot-separated runs of digits
BeginsWithMajorMinor(version) ==
    /\ LeadingDigits(version) >= 1
    /\ Len(version) > LeadingDigits(version) + 1
    /\ version[LeadingDigits(version) + 1] = "."
    /\ IsDigit(version[LeadingDigits(version) + 2])

\* the major of a version that begins with major.minor
MajorOf(version) == SubSeq(version, 1, LeadingDigits(version))

\* the minor of a version that begins with major.minor
MinorOf(version) ==
    LET rest == SubSeq(version, LeadingDigits(version) + 2, Len(version))
    IN  SubSeq(rest, 1, LeadingDigits(rest))

\* the dotnet entries keyed exactly '.NET major.minor'
ExactEntries(version) ==
    {i \in 1..Len(FRAMEWORK_SUPPORT.dotnet) :
        FRAMEWORK_SUPPORT.dotnet[i].key = DotNetPrefix \o MajorOf(version) \o <<".">> \o MinorOf(version)}

\* the dotnet entries whose key holds '.NET major'
MajorEntries(version) ==
    {i \in 1..Len(FRAMEWORK_SUPPORT.dotnet) :
        Contains(DotNetPrefix \o MajorOf(version), FRAMEWORK_SUPPORT.dotnet[i].key)}

\* the dotnet entry at position i as _get_framework_support returns it
DotNetEntry(i) == Some(<<FRAMEWORK_SUPPORT.dotnet[i].eol_date, FRAMEWORK_SUPPORT.dotnet[i].status>>)

\* C11: for the dotnet family and a version that begins with major.minor,
\* _get_framework_support returns the entry keyed exactly '.NET major.minor'
\* when there is one and only otherwise the first entry that matches the
\* major alone; for version 8.0.1 it returns ('2026-11-10', 'LTS'), and
\* System.Text.Json 8.0.1 classified before 2026-11-10 is
\* ACTIVELY_MAINTAINED, HIGH, end-of-life 2026-11-10.
C11_DotNetLookup ==
    /\ \A i \in CallsOf("_get_framework_support") :
          (calls[i].args[1] = "dotnet" /\ BeginsWithMajorMinor(calls[i].args[2])) =>
              /\ \A e \in ExactEntries(calls[i].args[2]) : calls[i].ret = DotNetEntry(e)
              /\ (ExactEntries(calls[i].args[2]) = {} /\ MajorEntries(calls[i].args[2]) # {}) =>
                     calls[i].ret = DotNetEntry(Min(MajorEntries(calls[i].args[2])))
              /\ calls[i].args[2] = V801 => calls[i].ret = Some(<<20767, "LTS">>)
    /\ (Returned /\ call.name = SystemTextJson /\ call.version = V801 /\ today < ParseDate(20767)) =>
           Ret = Verdict("ACTIVELY_MAINTAINED", DateString(20767), "HIGH", "framework")

\* System.Text.Json 8.0.1 looked up in the dotnet table and classified on the
\* evening of 2026-11-09
C11_Witness ==
    /\ Returned /\ call.name = SystemTextJson /\ call.version = V801
    /\ today = ParseDate(20766) + 1
    /\ \E i \in CallsOf("_get_framework_support") :
          /\ calls[i].args = <<"dotnet", V801>>
          /\ ExactEntries(V801) # {}
          /\ calls[i].ret = Some(<<20767, "LTS">>)

----------------------------------------------------------------------------
(* Properties of the identifier resolver *)

\* purl without its 'pkg:' prefix and without its qualifiers
PurlMain(purl) == Split(SubSeq(purl, 5, Len(purl)), "?")[1]

\* the qualifiers of purl: what follows the first '?', None without one
PurlQualifiers(purl) ==
    LET body == SubSeq(purl, 5, Len(purl))
        i == IndexFrom(<<"?">>, body, 1)
    IN  IF i = 0 THEN None ELSE Some(SubSeq(body, i + 1, Len(body)))

\* a well-formed identifier: 'pkg:', an ecosystem, any number of namespace
\* segments, a name, all non-empty and separated by '/', then optionally
\* '@' and a non-empty version, then optionally '?' and non-empty qualifiers
WellFormedPurl(purl) ==
    /\ StartsWith(purl, PkgScheme)
    /\ PurlQualifiers(purl) # Some(<<>>)
    /\ LET segs == Split(PurlMain(purl), "/")
           last == Split(segs[Len(segs)], "@")
       IN  /\ Len(segs) >= 2
           /\ \A k \in 1..Len(segs) : segs[k] # <<>>
           /\ \A k \in 1..(Len(segs) - 1) : ~Contains(<<"@">>, segs[k])
           /\ Len(last) <= 2
           /\ \A k \in 1..Len(last) : last[k] # <<>>

\* the identifier a ParsedIdentifier stands for
Reconstruct(parsed) ==
    PkgScheme \o parsed.ecosystem
    \o (IF IsSome(parsed.namespace) THEN <<"/">> \o Get(parsed.namespace) ELSE <<>>)
    \o <<"/">> \o parsed.name
    \o (IF IsSome(parsed.version) THEN <<"@">> \o Get(parsed.version) ELSE <<>>)

\* C12: for every well-formed identifier, what _parse_purl returns
\* reconstructs the identifier with its qualifiers removed.
C12_RoundTrip ==
    \A i \in CallsOf("_parse_purl") :
        WellFormedPurl(calls[i].args[1]) =>
            /\ IsSome(calls[i].ret)
            /\ Reconstruct(Get(calls[i].ret)) = PkgScheme \o PurlMain(calls[i].args[1])

\* an identifier without a name segment: nothing, or an ecosystem alone,
\* after 'pkg:'
NoNameSegment(purl) == ~Contains(<<"/">>, PurlMain(purl))

\* C14: _parse_purl returns None for every string that does not start with
\* 'pkg:' and for every 'pkg:' string without a name segment, and never a
\* ParsedIdentifier whose ecosystem or name is empty.
C14_ParseFailure ==
    \A i \in CallsOf("_parse_purl") :
        /\ ~StartsWith(calls[i].args[1], PkgScheme) => calls[i].ret = None
        /\ (StartsWith(calls[i].args[1], PkgScheme) /\ NoNameSegment(calls[i].args[1])) =>
               calls[i].ret = None
        /\ IsSome(calls[i].ret) =>
               (Get(calls[i].ret).ecosystem # <<>> /\ Get(calls[i].ret).name # <<>>)

----------------------------------------------------------------------------
(* Properties of the registry dispatch and the URL fallback *)

\* C13: for the purl pkg:npm/@scope/pkg@1.0.0 the version is 1.0.0 and the
\* npm registry client is called for the scoped package @scope/pkg.
C13_ScopedNpmLookup ==
    (component.purl = Some(ScopedPurl) /\ pc # "purl") =>
        /\ IsSome(frame.purl_data)
        /\ Get(frame.purl_data).version = Some(V100)
        /\ calls # <<>>
        /\ calls[1].fn = "_analyze_npm_package"
        /\ calls[1].args = <<<<"@", "s", "c", "o", "p", "e", "/", "p", "k", "g">>, V100>>

\* the calls of _analyze_from_url made so far, in order
UrlCalls ==
    LET IsUrlCall(c) == c.fn = "_analyze_from_url"
    IN  SelectSeq(calls, IsUrlCall)

\* the urls of the references whose type is in types, in original order
RECURSIVE UrlsOfTypes(_, _)
UrlsOfTypes(refs, types) ==
    IF refs = <<>> THEN <<>>
    ELSE (IF Head(refs).type \in types THEN <<Head(refs).url>> ELSE <<>>)
         \o UrlsOfTypes(Tail(refs), types)

PriorityTypes == {"vcs", "repository", "website", "distribution"}

\* the types of the references of refs
TypesOf(refs) == {refs[i].type : i \in 1..Len(refs)}

\* the order C15 states: vcs, repository, website, distribution, then the
\* references of every other type
ClaimedOrder(refs) ==
    UrlsOfTypes(refs, {"vcs"}) \o UrlsOfTypes(refs, {"repository"})
    \o UrlsOfTypes(refs, {"website"}) \o UrlsOfTypes(refs, {"distribution"})
    \o UrlsOfTypes(refs, TypesOf(refs) \ PriorityTypes)

\* analyze_component went on with a snapshot
WentOn == pc \in {"repo", "classify"} \/ (pc = "done" /\ Returned)

\* C15: the candidate URLs are dispatched in the order vcs, repository,
\* website, distribution, then the remaining references, each group in
\* original order; only the last dispatch can have succeeded, the snapshot
\* used is that success, and analyze_component gives up only after every
\* candidate failed.
C15_FallbackOrder ==
    /\ Len(UrlCalls) <= Len(ClaimedOrder(component.externalReferences))
    /\ \A i \in 1..Len(UrlCalls) :
          /\ UrlCalls[i].args[1] = ClaimedOrder(component.externalReferences)[i]
          /\ i < Len(UrlCalls) => (~UrlCalls[i].raised /\ ~UrlCalls[i].ret.success)
    /\ (WentOn /\ UrlCalls # <<>>) =>
          /\ UrlCalls[Len(UrlCalls)].ret.success
          /\ frame.package_data = UrlCalls[Len(UrlCalls)].ret
    /\ (Returned /\ UrlCalls # <<>>) => call.package_data = UrlCalls[Len(UrlCalls)].ret
    /\ (pc = "done" /\ ~Returned) =>
          /\ Len(UrlCalls) = Len(ClaimedOrder(component.externalReferences))
          /\ \A i \in 1..Len(UrlCalls) : ~UrlCalls[i].ret.success

\* the first vcs reference failed, the second succeeded and no other
\* reference was dispatched before the component was classified
C15_Witness ==
    /\ Returned /\ pc = "done"
    /\ Len(component.externalReferences) = 6
    /\ Len(UrlCalls) = 2
    /\ UrlCalls[1].args[1] = <<"h", "t", "t", "p", "s", ":", "/", "/", "g", "i", "t", "h", "u", "b", ".", "c", "o", "m", "/", "o", "/", "y">> /\ ~UrlCalls[1].ret.success
    /\ UrlCalls[2].args[1] = <<"h", "t", "t", "p", "s", ":", "/", "/", "g", "i", "t", "h", "u", "b", ".", "c", "o", "m", "/", "o", "/", "y", "3">> /\ UrlCalls[2].ret.success
    /\ call.package_data = UrlCalls[2].ret

\* the URL fallback was entered: analyze_component is in it, or dispatched a
\* URL, or gave up
FallbackEntered == pc \in {"fallback", "try"} \/ UrlCalls # <<>> \/ (pc = "done" /\ ~Returned)

\* the identifier as _parse_purl reads it, None when absent or unparsable
Parsed == IF IsSome(component.purl) THEN ParsePurl(Get(component.purl)) ELSE None

SupportedEcosystems == {<<"n", "u", "g", "e", "t">>, <<"n", "p", "m">>, <<"p", "y", "p", "i">>, <<"m", "a", "v", "e", "n">>, <<"c", "o", "c", "o", "a", "p", "o", "d", "s">>, <<"g", "i", "t", "h", "u", "b">>}

RegistryClients ==
    {"_analyze_nuget_package", "_analyze_npm_package", "_analyze_pypi_package",
     "_analyze_maven_package", "_analyze_cocoapods_package"}

\* the calls of the registry dispatch made so far, as positions of the log:
\* the calls of a registry client and, for a pkg:github identifier, the
\* first repository lookup
RegistryCalls ==
    {i \in 1..Len(calls) : calls[i].fn \in RegistryClients}
    \cup {i \in 1..Len(calls) :
            /\ IsSome(Parsed) /\ Get(Parsed).ecosystem = <<"g", "i", "t", "h", "u", "b">>
            /\ calls[i].fn = "_get_github_repo_info"
            /\ \A j \in 1..(i - 1) : calls[j].fn # "_get_github_repo_info"}

\* a registry lookup returned failure
RegistryFailed == \E i \in RegistryCalls : ~calls[i].raised /\ ~calls[i].ret.success

\* a registry lookup returned a snapshot
RegistrySucceeded == \E i \in RegistryCalls : ~calls[i].raised /\ calls[i].ret.success

\* the registry lookup precedes every dispatch of a reference URL
RegistryFirst ==
    \A i \in RegistryCalls : \A j \in 1..Len(calls) : calls[j].fn = "_analyze_from_url" => i < j

\* the identifier is absent, does not parse or names an unsupported ecosystem
NoRegistryFor ==
    \/ ~IsSome(component.purl)
    \/ ~IsSome(Parsed)
    \/ Get(Parsed).ecosystem \notin SupportedEcosystems

\* a Maven identifier without a namespace: no lookup is made for it
MavenWithoutNamespace ==
    /\ IsSome(Parsed)
    /\ Get(Parsed).ecosystem = <<"m", "a", "v", "e", "n">>
    /\ Get(Parsed).namespace \in {None, Some(<<>>)}

\* C16 as stated: the URL fallback is entered exactly when the identifier is
\* absent, fails to parse, names an unsupported ecosystem or its registry
\* lookup returned failure; never after a successful lookup; and the
\* registry lookup precedes every dispatch of a reference URL.
C16_FallbackExactlyOnFailure ==
    /\ pc # "purl" => (FallbackEntered <=> (NoRegistryFor \/ RegistryFailed))
    /\ RegistrySucceeded => ~FallbackEntered
    /\ RegistryFirst

\* C16, amended: as stated, with one more trigger: a Maven identifier
\* without a namespace, for which no registry lookup is made.
C16_FallbackTrigger ==
    /\ pc # "purl" =>
          (FallbackEntered <=> (NoRegistryFor \/ MavenWithoutNamespace \/ RegistryFailed))
    /\ RegistrySucceeded => ~FallbackEntered
    /\ RegistryFirst

\* the fallback dispatched a reference URL of a Maven component without a
\* namespace, with no registry lookup before it
C16_Witness ==
    /\ component.purl = Some(MavenNoNamespace)
    /\ MavenWithoutNamespace
    /\ Len(calls) = 1
    /\ calls[1].fn = "_analyze_from_url"
    /\ calls[1].ret.success

\* C28: the candidate list holds no URL twice and no URL is dispatched
\* twice during one component's fallback, also when a URL appears under two
\* reference types or twice under one.
C28_NoDuplicateCandidates ==
    /\ \A i, j \in 1..Len(frame.urls_to_try) : frame.urls_to_try[i] = frame.urls_to_try[j] => i = j
    /\ \A i, j \in 1..Len(UrlCalls) : UrlCalls[i].args[1] = UrlCalls[j].args[1] => i = j

\* the same for the components whose references hold every URL once
C28_NoDuplicatesForDistinctReferences ==
    (\A i, j \in 1..Len(component.externalReferences) :
        component.externalReferences[i].url = component.externalReferences[j].url => i = j) =>
        /\ \A i, j \in 1..Len(frame.urls_to_try) : frame.urls_to_try[i] = frame.urls_to_try[j] => i = j
        /\ \A i, j \in 1..Len(UrlCalls) : UrlCalls[i].args[1] = UrlCalls[j].args[1] => i = j

\* one URL under vcs, website and vcs again: dispatched three times, the
\* third dispatch succeeding after two failures
C28_DispatchedThrice ==
    /\ Len(UrlCalls) = 3
    /\ \A i \in 1..3 : UrlCalls[i].args[1] = <<"h", "t", "t", "p", "s", ":", "/", "/", "g", "i", "t", "l", "a", "b", ".", "c", "o", "m", "/", "o", "/", "d">>
    /\ ~UrlCalls[1].ret.success /\ ~UrlCalls[2].ret.success /\ UrlCalls[3].ret.success

----------------------------------------------------------------------------
(* Properties of the version matcher *)

\* the items of a decoded body: none unless it is a list
ItemsOf(body) == IF body.kind = "list" THEN body.items ELSE <<>>

\* some candidate of version matches the release
ReleaseMatches(release, version) ==
    \E k \in 1..Len(VersionPatterns(version)) :
        PatternHitsRelease(VersionPatterns(version)[k], LowerStr(release.tag_name),
                           IF IsSome(release.name) THEN LowerStr(Get(release.name)) ELSE <<>>)

\* some candidate of version matches the tag
TagMatches(tag, version) ==
    \E k \in 1..Len(VersionPatterns(version)) :
        PatternHitsTag(VersionPatterns(version)[k], LowerStr(tag.name))

\* no release of the Releases answer matches version: the list is empty,
\* the request failed, or no item matches
NoReleaseMatches(net, version) ==
    \A i \in 1..Len(ItemsOf(net.releases)) : ~ReleaseMatches(ItemsOf(net.releases)[i], version)

\* the tags of the Tags answer that match version, as positions
MatchingTags(net, version) ==
    {i \in 1..Len(ItemsOf(net.tags)) : TagMatches(ItemsOf(net.tags)[i], version)}

\* the commit date the follow-up lookup gives for a tag, None without one
TagCommitDate(net, tag) ==
    IF IsSome(tag.sha) /\ net.commit[Get(tag.sha)].kind = "object"
    THEN net.commit[Get(tag.sha)].date
    ELSE None

\* C17: whenever no release matches the version, also when the Releases
\* endpoint returns an empty list or fails, the tags are matched the same
\* way and the date returned is the commit date of the matching tag; for
\* version 2.0 and the tags v2.0.0, v1.9.0 it is the commit date of v2.0.0.
C17_ReleasesThenTags ==
    \A i \in CallsOf("_get_github_release_for_version") :
        LET version == calls[i].args[3]
            net == calls[i].args[4]
            tags == ItemsOf(net.tags)
        IN  /\ (/\ NoReleaseMatches(net, version)
                /\ MatchingTags(net, version) # {}
                /\ IsSome(TagCommitDate(net, tags[Min(MatchingTags(net, version))]))) =>
                    calls[i].ret = TagCommitDate(net, tags[Min(MatchingTags(net, version))])
            /\ (/\ version = V20
                /\ NoReleaseMatches(net, version)
                /\ tags = <<Tag(<<"v", "2", ".", "0", ".", "0">>, Some(Sha1)), Tag(<<"v", "1", ".", "9", ".", "0">>, Some(Sha2))>>
                /\ IsSome(TagCommitDate(net, tags[1]))) =>
                    calls[i].ret = TagCommitDate(net, tags[1])

\* C17 where it holds: the same, when the Releases endpoint answered with a
\* list that is not empty
C17_TagsAfterNonEmptyReleases ==
    \A i \in CallsOf("_get_github_release_for_version") :
        LET version == calls[i].args[3]
            net == calls[i].args[4]
            tags == ItemsOf(net.tags)
        IN  (/\ ItemsOf(net.releases) # <<>>
             /\ NoReleaseMatches(net, version)
             /\ MatchingTags(net, version) # {}
             /\ IsSome(TagCommitDate(net, tags[Min(MatchingTags(net, version))]))) =>
                 calls[i].ret = TagCommitDate(net, tags[Min(MatchingTags(net, version))])

\* label names version: equal to one of its candidates up to case, leading
\* 'v's and an underscore or hyphen standing for a space
Denotes(label, version) ==
    \E k \in 1..Len(VersionPatterns(version)) :
        \E l \in {LowerStr(label), Replace(LowerStr(label), <<"_">>, <<" ">>), Replace(LowerStr(label), <<"-">>, <<" ">>)} :
            LStrip(l, "v") = LStrip(LowerStr(VersionPatterns(version)[k]), "v")

\* the dates of the releases and tags of the answers that denote version
AccurateDates(net, version) ==
    {ItemsOf(net.releases)[i].published_at : i \in {j \in 1..Len(ItemsOf(net.releases)) : Denotes(ItemsOf(net.releases)[j].tag_name, version)}}
    \cup {TagCommitDate(net, ItemsOf(net.tags)[i]) : i \in {j \in 1..Len(ItemsOf(net.tags)) : Denotes(ItemsOf(net.tags)[j].name, version)}}

\* C23: a date returned by _get_github_release_for_version is the date of a
\* release or tag that denotes the requested version; requesting 2.0 never
\* returns the date of release v12.0.0.
C23_VersionAccurateDate ==
    \A i \in CallsOf("_get_github_release_for_version") :
        IsSome(calls[i].ret) => calls[i].ret \in AccurateDates(calls[i].args[4], calls[i].args[3])

\* the same when the Releases answer holds no v12.0.0: the dates returned
\* for the other answers are version-accurate
C23_AccurateWithoutContainment ==
    \A i \in CallsOf("_get_github_release_for_version") :
        (/\ IsSome(calls[i].ret)
         /\ \A j \in 1..Len(ItemsOf(calls[i].args[4].releases)) :
               ItemsOf(calls[i].args[4].releases)[j].tag_name # <<"v", "1", "2", ".", "0", ".", "0">>) =>
            calls[i].ret \in AccurateDates(calls[i].args[4], calls[i].args[3])

\* the releases of the Releases answer that some candidate of version
\* matches and that have a publish date, as positions
DatedMatches(net, version) ==
    {j \in 1..Len(ItemsOf(net.releases)) :
        /\ ReleaseMatches(ItemsOf(net.releases)[j], version)
        /\ IsSome(ItemsOf(net.releases)[j].published_at)}

\* the candidates of version that match the release, as positions
MatchingCandidates(release, version) ==
    {k \in 1..Len(VersionPatterns(version)) :
        PatternHitsRelease(VersionPatterns(version)[k], LowerStr(release.tag_name),
                           IF IsSome(release.name) THEN LowerStr(Get(release.name)) ELSE <<>>)}

\* C24: the date returned is that of the first release, in the order of the
\* Releases answer, that some candidate matches and that has a publish
\* date, whichever candidate matched; a later release is never returned
\* when an earlier one matches.
C24_FirstMatchingRelease ==
    \A i \in CallsOf("_get_github_release_for_version") :
        DatedMatches(calls[i].args[4], calls[i].args[3]) # {} =>
            calls[i].ret = ItemsOf(calls[i].args[4].releases)[Min(DatedMatches(calls[i].args[4], calls[i].args[3]))].published_at

\* the same for the calls that return a date: it is never the date of a
\* later release when an earlier one matches
C24_FirstMatchingWhenReturned ==
    \A i \in CallsOf("_get_github_release_for_version") :
        (IsSome(calls[i].ret) /\ DatedMatches(calls[i].args[4], calls[i].args[3]) # {}) =>
            calls[i].ret = ItemsOf(calls[i].args[4].releases)[Min(DatedMatches(calls[i].args[4], calls[i].args[3]))].published_at

\* 2.0-rc1 looked up: release v2.0 comes first and is matched by the last
\* candidate only, release v2.0-rc1 is matched by the first; the date of
\* v2.0 is returned
C24_EarlierReleaseLaterCandidate ==
    \E i \in CallsOf("_get_github_release_for_version") :
        /\ calls[i].args[3] = <<"2", ".", "0", "-", "r", "c", "1">>
        /\ DatedMatches(calls[i].args[4], calls[i].args[3]) = {1, 2}
        /\ Min(MatchingCandidates(ItemsOf(calls[i].args[4].releases)[1], calls[i].args[3])) = 8
        /\ 1 \in MatchingCandidates(ItemsOf(calls[i].args[4].releases)[2], calls[i].args[3])
        /\ calls[i].ret = Some(StaleDate)

----------------------------------------------------------------------------
(* Properties of the snapshot sources that read GitHub *)

\* what the version matcher finds for the component's version under the
\* answers net; the answers do not depend on the repository asked for
VersionDate(net) == GetGithubReleaseForVersion(<<>>, <<"o">>, <<"r">>, component.version, net).ret

\* C18: on every path where GitHub is the source of the snapshot, when the
\* version matcher finds a date for the requested version, latest_date is
\* that date.
C18_VersionDatePreferred ==
    \A i \in 1..Len(calls) :
        (calls[i].ret.success /\ IsSome(VersionDate(calls[i].args[2]))) =>
            calls[i].ret.latest_date = VersionDate(calls[i].args[2])

\* C18 where it holds: the same on the paths through _analyze_from_url
C18_VersionDatePreferredFromUrl ==
    \A i \in CallsOf("_analyze_from_url") :
        (calls[i].ret.success /\ IsSome(VersionDate(calls[i].args[2]))) =>
            calls[i].ret.latest_date = VersionDate(calls[i].args[2])

----------------------------------------------------------------------------
(* Properties of the registry clients *)

\* the catalog entries of a NuGet answer, inline or on its page
EntriesOf(net) ==
    IF IsSome(net.nuget.items[1].items) THEN Get(net.nuget.items[1].items)
    ELSE net.page[NugetPage1].items

\* the entry is published 1900-01-01
IsUnlisted(item) == IsSome(item.published) /\ FormatDate(Get(item.published)) = NugetUnlistedDay

\* C19: a catalog entry published 1900-01-01 that carries a commitTimeStamp
\* is recorded with the commit timestamp: when it is the entry of the
\* requested version, latest_date is its commit timestamp, and when every
\* unlisted entry carries one, latest_date is never the sentinel.
C19_SentinelReplaced ==
    \A i \in CallsOf("_analyze_nuget_package") :
        LET items == EntriesOf(calls[i].args[2])
            mine == {k \in 1..Len(items) : items[k].version = Some(calls[i].args[1][2])}
        IN  calls[i].ret.success =>
            /\ \A k \in mine :
                  (mine = {k} /\ IsUnlisted(items[k]) /\ IsSome(items[k].commitTimeStamp)) =>
                      calls[i].ret.latest_date = items[k].commitTimeStamp
            /\ (\A k \in 1..Len(items) : IsUnlisted(items[k]) => IsSome(items[k].commitTimeStamp)) =>
                  calls[i].ret.latest_date # Some(Sentinel)

\* version 8.0.1 is unlisted, carries a commit timestamp, and stands between
\* two other entries; latest_date is its commit timestamp
C19_Witness ==
    \E i \in CallsOf("_analyze_nuget_package") :
        /\ calls[i].args[1][2] = V801
        /\ Len(EntriesOf(calls[i].args[2])) = 3
        /\ EntriesOf(calls[i].args[2])[2].version = Some(V801)
        /\ EntriesOf(calls[i].args[2])[1].version = Some(V800)
        /\ EntriesOf(calls[i].args[2])[3].version = Some(V900)
        /\ IsUnlisted(EntriesOf(calls[i].args[2])[2])
        /\ EntriesOf(calls[i].args[2])[2].commitTimeStamp = Some(FreshDate)
        /\ calls[i].ret.success
        /\ calls[i].ret.latest_date = Some(FreshDate)

\* C20: when a registry answer holds a project or source URL anywhere (a
\* projectUrl on any NuGet catalog entry; Source or Repository among PyPI's
\* project_urls), the snapshot's repo_url is such a URL, never a license or
\* homepage URL.
C20_ProjectUrlFirst ==
    /\ \A i \in CallsOf("_analyze_nuget_package") :
          LET items == EntriesOf(calls[i].args[2])
              with_project == {k \in 1..Len(items) : IsSome(items[k].projectUrl)}
          IN  (calls[i].ret.success /\ with_project # {}) =>
                  calls[i].ret.repo_url \in {items[k].projectUrl : k \in with_project}
    /\ \A i \in CallsOf("_analyze_pypi_package") :
          LET info == calls[i].args[2].pypi
          IN  (calls[i].ret.success /\ (IsSome(info.Source) \/ IsSome(info.Repository))) =>
                  /\ IsSome(calls[i].ret.repo_url)
                  /\ calls[i].ret.repo_url \in {info.Source, info.Repository}

\* C20 where it holds: the PyPI client, and the NuGet client when the first
\* catalog entry that has any URL has a projectUrl
C20_ProjectUrlFirstWithinEntry ==
    /\ \A i \in CallsOf("_analyze_nuget_package") :
          LET items == EntriesOf(calls[i].args[2])
              with_url == {k \in 1..Len(items) : IsSome(items[k].projectUrl) \/ IsSome(items[k].licenseUrl)}
          IN  (calls[i].ret.success /\ with_url # {} /\ IsSome(items[Min(with_url)].projectUrl)) =>
                  calls[i].ret.repo_url = items[Min(with_url)].projectUrl
    /\ \A i \in CallsOf("_analyze_pypi_package") :
          LET info == calls[i].args[2].pypi
          IN  (calls[i].ret.success /\ (IsSome(info.Source) \/ IsSome(info.Repository))) =>
                  /\ IsSome(calls[i].ret.repo_url)
                  /\ calls[i].ret.repo_url \in {info.Source, info.Repository}

----------------------------------------------------------------------------
(* Properties of the request cache *)

\* the request a step makes: the call it appends to the log
RequestMade == calls'[Len(calls')]

\* C21: a body the cache holds is never overwritten or removed; a request
\* for a cached URL returns the stored body whatever the upstream has to
\* offer, and leaves the cache as it is; a failed request leaves the cache
\* unchanged; the first body a URL is answered with is the one stored.
C21_CacheWriteOnce ==
    [][/\ \A url \in DOMAIN cache : url \in DOMAIN cache' /\ cache'[url] = cache[url]
       /\ (Len(calls') = Len(calls) + 1 /\ RequestMade.fn = "_make_request") =>
             /\ RequestMade.args[1] \in DOMAIN cache =>
                   (RequestMade.ret = cache[RequestMade.args[1]] /\ cache' = cache)
             /\ (RequestMade.args[1] \notin DOMAIN cache /\ RequestMade.args[2] = NoBody) =>
                   (RequestMade.ret = NoBody /\ cache' = cache)
             /\ (RequestMade.args[1] \notin DOMAIN cache /\ RequestMade.args[2] # NoBody) =>
                   /\ RequestMade.ret = RequestMade.args[2]
                   /\ DOMAIN cache' = DOMAIN cache \cup {RequestMade.args[1]}
                   /\ cache'[RequestMade.args[1]] = RequestMade.args[2]]_vars

\* a URL answered, then requested again while the upstream offers another
\* body, then while it fails: both later requests return the stored body
C21_Witness ==
    /\ Len(calls) = 3
    /\ calls[1].args = <<<<"https://registry.npmjs.org/", "p">>, GithubRepoBody(FALSE)>>
    /\ calls[2].args = <<<<"https://registry.npmjs.org/", "p">>, GithubRepoBody(TRUE)>>
    /\ calls[3].args = <<<<"https://registry.npmjs.org/", "p">>, NoBody>>
    /\ calls[2].ret = GithubRepoBody(FALSE)
    /\ calls[3].ret = GithubRepoBody(FALSE)
    /\ cache = (<<"https://registry.npmjs.org/", "p">> :> GithubRepoBody(FALSE))

----------------------------------------------------------------------------
(* Properties of the batch *)

\* the analyses that returned, in order
IsAnalysis(k) == k.fn = "analyze_component"

Analyzed == SelectSeq(calls, IsAnalysis)

\* analyze_component is running
Analyzing == pc \in {"purl", "fallback", "try", "repo", "classify", "done", "raised"}

----------------------------------------------------------------------------
(* Properties of the framework detection *)

\* the frameworks of the table with a pattern that matches name, as
\* positions in the table
MatchingFrameworks(name) ==
    {i \in 1..Len(FRAMEWORK_PATTERNS) :
        \E j \in 1..Len(FRAMEWORK_PATTERNS[i].patterns) :
            LET p == FRAMEWORK_PATTERNS[i].patterns[j]
            IN  IF p.exact THEN LowerStr(name) = LowerStr(p.lit)
                ELSE StartsWith(LowerStr(name), LowerStr(p.lit))}

\* name begins with one of the two prefixes of the nuget hint
HintPrefixed(name) == StartsWith(name, <<"S", "y", "s", "t", "e", "m", ".">>) \/ StartsWith(name, <<"M", "i", "c", "r", "o", "s", "o", "f", "t", ".">>)

\* what _detect_framework returned for name under the hint ecosystem
Detected(name, ecosystem) ==
    {calls[i].ret : i \in {k \in CallsOf("_detect_framework") : calls[k].args = <<name, ecosystem>>}}

\* C25: the framework returned is that of the first pattern, in table
\* order, that matches the start of the name whatever the case; under the
\* nuget hint a name prefixed System. or Microsoft. is dotnet also when no
\* pattern matches; without the hint a Microsoft.-prefixed name that no
\* pattern matches is not detected; no pattern and no hint is no framework.
C25_FrameworkDetection ==
    /\ \A i \in CallsOf("_detect_framework") :
          LET name == calls[i].args[1]
              ecosystem == calls[i].args[2]
          IN  /\ MatchingFrameworks(name) # {} =>
                    calls[i].ret = Some(FRAMEWORK_PATTERNS[Min(MatchingFrameworks(name))].framework)
              /\ (ecosystem = Some(<<"n", "u", "g", "e", "t">>) /\ HintPrefixed(name)) => calls[i].ret = Some("dotnet")
              /\ (MatchingFrameworks(name) = {} /\ ecosystem # Some(<<"n", "u", "g", "e", "t">>)) => calls[i].ret = None
              /\ (MatchingFrameworks(name) = {} /\ ~HintPrefixed(name) /\ ~StartsWith(name, <<"r", "u", "n", "t", "i", "m", "e", ".">>)) =>
                    calls[i].ret = None
    /\ Detected(<<"S", "Y", "S", "T", "E", "M", ".", "T", "e", "x", "t">>, None) \subseteq {Some("dotnet")}
    /\ Detected(<<"J", "a", "v", "a", "x", ".", "3">>, Some(<<"m", "a", "v", "e", "n">>)) \subseteq {Some("java")}
    /\ Detected(<<"p", "y", "t", "h", "o", "n", "3">>, None) \subseteq {None}
    /\ Detected(<<"M", "i", "c", "r", "o", "s", "o", "f", "t", ".", "T", "e", "x", "t">>, Some(<<"n", "u", "g", "e", "t">>)) \subseteq {Some("dotnet")}
    /\ Detected(<<"M", "i", "c", "r", "o", "s", "o", "f", "t", ".", "T", "e", "x", "t">>, None) \subseteq {None}
    /\ Detected(<<"M", "i", "c", "r", "o", "s", "o", "f", "t", ".", "T", "e", "x", "t">>, Some(<<"n", "p", "m">>)) \subseteq {None}
    /\ Detected(<<"m", "y", ".", "S", "y", "s", "t", "e", "m", ".", "T", "e", "x", "t">>, Some(<<"n", "u", "g", "e", "t">>)) \subseteq {None}

\* Microsoft.Text under the nuget hint: no pattern matches, dotnet by the hint
C25_Witness ==
    /\ pc = "detected"
    /\ MatchingFrameworks(<<"M", "i", "c", "r", "o", "s", "o", "f", "t", ".", "T", "e", "x", "t">>) = {}
    /\ Detected(<<"M", "i", "c", "r", "o", "s", "o", "f", "t", ".", "T", "e", "x", "t">>, Some(<<"n", "u", "g", "e", "t">>)) = {Some("dotnet")}

----------------------------------------------------------------------------
(* Properties of the registry re-routing *)

\* the registry clients called, in order
IsRegistryCall(k) == k.fn \in RegistryClients

RegistryCallsMade == SelectSeq(calls, IsRegistryCall)

\* the url _analyze_from_url was called with, None before the call
UrlAnalyzed ==
    IF CallsOf("_analyze_from_url") = {} THEN None
    ELSE Some(calls[Min(CallsOf("_analyze_from_url"))].args[1])

\* C26: for a reference URL on a registry's web site the registry's client
\* is called with the coordinates of the URL path; for the Maven browser URL
\* https://mvnrepository.com/artifact/org.apache/commons the Maven client is
\* called with group org.apache and artifact commons, never with the host
\* name or the path word 'artifact'.
C26_RegistryRerouting ==
    /\ UrlAnalyzed = Some(MavenBrowserUrl) =>
          /\ Len(RegistryCallsMade) = 1
          /\ RegistryCallsMade[1].fn = "_analyze_maven_package"
          /\ RegistryCallsMade[1].args = <<<<"o", "r", "g", ".", "a", "p", "a", "c", "h", "e">>, <<"c", "o", "m", "m", "o", "n", "s">>, <<"1", ".", "0">>>>
    /\ UrlAnalyzed = Some(<<"h", "t", "t", "p", "s", ":", "/", "/", "w", "w", "w", ".", "n", "p", "m", "j", "s", ".", "c", "o", "m", "/", "p", "a", "c", "k", "a", "g", "e", "/", "l", "o", "d", "a", "s", "h">>) =>
          /\ Len(RegistryCallsMade) = 1
          /\ RegistryCallsMade[1].fn = "_analyze_npm_package"
          /\ RegistryCallsMade[1].args = <<Lodash, V41721>>
    /\ UrlAnalyzed = Some(<<"h", "t", "t", "p", "s", ":", "/", "/", "p", "y", "p", "i", ".", "o", "r", "g", "/", "p", "r", "o", "j", "e", "c", "t", "/", "r", "e", "q", "u", "e", "s", "t", "s", "/">>) =>
          /\ Len(RegistryCallsMade) = 1
          /\ RegistryCallsMade[1].fn = "_analyze_pypi_package"
          /\ RegistryCallsMade[1].args = <<<<"r", "e", "q", "u", "e", "s", "t", "s">>, V20>>
    /\ UrlAnalyzed = Some(<<"h", "t", "t", "p", "s", ":", "/", "/", "w", "w", "w", ".", "n", "u", "g", "e", "t", ".", "o", "r", "g", "/", "p", "a", "c", "k", "a", "g", "e", "s", "/", "S", "y", "s", "t", "e", "m", ".", "T", "e", "x", "t", ".", "J", "s", "o", "n">>) =>
          /\ Len(RegistryCallsMade) = 1
          /\ RegistryCallsMade[1].fn = "_analyze_nuget_package"
          /\ RegistryCallsMade[1].args = <<SystemTextJson, V801>>

\* the same without the Maven URLs: the npm, PyPI and NuGet clients get the
\* package name of the URL path
C26_ReroutingOutsideMaven ==
    /\ UrlAnalyzed = Some(<<"h", "t", "t", "p", "s", ":", "/", "/", "w", "w", "w", ".", "n", "p", "m", "j", "s", ".", "c", "o", "m", "/", "p", "a", "c", "k", "a", "g", "e", "/", "l", "o", "d", "a", "s", "h">>) =>
          (Len(RegistryCallsMade) = 1 /\ RegistryCallsMade[1].args = <<Lodash, V41721>>)
    /\ UrlAnalyzed = Some(<<"h", "t", "t", "p", "s", ":", "/", "/", "n", "p", "m", "j", "s", ".", "o", "r", "g", "/", "p", "a", "c", "k", "a", "g", "e", "/", "l", "o", "d", "a", "s", "h", "/", "v", "/", "4", ".", "1", "7", ".", "2", "1">>) =>
          (Len(RegistryCallsMade) = 1 /\ RegistryCallsMade[1].args = <<Lodash, V41721>>)
    /\ UrlAnalyzed = Some(<<"h", "t", "t", "p", "s", ":", "/", "/", "p", "y", "p", "i", ".", "o", "r", "g", "/", "p", "r", "o", "j", "e", "c", "t", "/", "r", "e", "q", "u", "e", "s", "t", "s", "/">>) =>
          (Len(RegistryCallsMade) = 1 /\ RegistryCallsMade[1].args = <<<<"r", "e", "q", "u", "e", "s", "t", "s">>, V20>>)
    /\ UrlAnalyzed = Some(<<"h", "t", "t", "p", "s", ":", "/", "/", "w", "w", "w", ".", "n", "u", "g", "e", "t", ".", "o", "r", "g", "/", "p", "a", "c", "k", "a", "g", "e", "s", "/", "S", "y", "s", "t", "e", "m", ".", "T", "e", "x", "t", ".", "J", "s", "o", "n">>) =>
          (Len(RegistryCallsMade) = 1 /\ RegistryCallsMade[1].args = <<SystemTextJson, V801>>)

\* what _analyze_from_url returns for a registry URL is what the client
\* logged before it returned, and a URL without a client fails
C26_ClientIsTheCallMade ==
    \A i \in CallsOf("_analyze_from_url") :
        IF i = 1 THEN calls[i].ret = Failure /\ ~calls[i].raised /\ cache = <<>>
        ELSE calls[i].ret = calls[i - 1].ret /\ calls[i].raised = calls[i - 1].raised

----------------------------------------------------------------------------
(* Properties of the repository lookup *)

\* s without a trailing '.git'
WithoutGitSuffix(s) ==
    IF Len(s) >= 4 /\ SubSeq(s, Len(s) - 3, Len(s)) = DotGit THEN SubSeq(s, 1, Len(s) - 4) ELSE s

\* the repository segment of a github.com/{owner}/{repo}[.git][/...] URL,
\* only a trailing '.git' removed
RepositoryOf(url) == WithoutGitSuffix(Get(GithubRepoMatch(url))[2])

\* C27: for a URL github.com/{owner}/{repo}[.git][/...] the repository
\* queried is /repos/{owner}/{repo}, repo being the URL's repository
\* segment with only a trailing '.git' removed; user.github.io is queried
\* as user.github.io.
C27_RepositoryName ==
    \A i \in CallsOf("_get_github_repo_info") :
        IsSome(calls[i].ret) =>
            /\ Get(calls[i].ret).owner = Get(GithubRepoMatch(calls[i].args[1]))[1]
            /\ Get(calls[i].ret).repo = RepositoryOf(calls[i].args[1])
            /\ GithubApiUrl(Get(calls[i].ret).owner, RepositoryOf(calls[i].args[1])) \in DOMAIN cache
            /\ calls[i].args[1] = <<"h", "t", "t", "p", "s", ":", "/", "/", "g", "i", "t", "h", "u", "b", ".", "c", "o", "m", "/", "u", "s", "e", "r", "/", "u", "s", "e", "r", ".", "g", "i", "t", "h", "u", "b", ".", "i", "o">> =>
                  Get(calls[i].ret).repo = <<"u", "s", "e", "r", ".", "g", "i", "t", "h", "u", "b", ".", "i", "o">>

\* the same for the names that hold '.git' nowhere but at the end
C27_TrailingGitSuffixRemoved ==
    \A i \in CallsOf("_get_github_repo_info") :
        (/\ IsSome(calls[i].ret)
         /\ ~Contains(DotGit, RepositoryOf(calls[i].args[1]))) =>
            /\ Get(calls[i].ret).repo = RepositoryOf(calls[i].args[1])
            /\ GithubApiUrl(Get(calls[i].ret).owner, RepositoryOf(calls[i].args[1])) \in DOMAIN cache

----------------------------------------------------------------------------
(* Properties of termination *)

\* C29: every network call returning, analyze_component always terminates
\* with a result.
C29_TerminatesWithResult == <>(pc = "done" /\ IsSome(result))

\* analyze_component always comes to an end: it returns a result or an
\* exception leaves it
C29_Terminates == <>(pc \in {"done", "raised"})

\* an alias URL makes _analyze_from_url call itself once, with the
\* github.com URL of the repository, and no other URL makes it call itself
C29_AliasReentersOnce ==
    \A i \in 1..Len(UrlCalls) :
        /\ Reentries(UrlCalls[i].args[1]) <= 1
        /\ Reentries(UrlCalls[i].args[1]) = 1 =>
              /\ Contains(<<"b", "o", "o", "s", "t", ".", "o", "r", "g">>, UrlCalls[i].args[1]) \/ Contains(<<"c", "-", "a", "r", "e", "s">>, UrlCalls[i].args[1])
              /\ (~UrlCalls[i].raised /\ UrlCalls[i].ret.success) =>
                    UrlCalls[i].ret.repo_url \in {Some(BoostRepository), Some(CAresRepository)}

\* the Boost alias resolved through its GitHub repository and the
\* component classified
C29_AliasResolved ==
    /\ pc = "done" /\ Returned
    /\ component.name = <<"b", "o", "o", "s", "t">>
    /\ Len(UrlCalls) = 1
    /\ Reentries(UrlCalls[1].args[1]) = 1
    /\ UrlCalls[1].ret.repo_url = Some(BoostRepository)

----------------------------------------------------------------------------
(* Properties of the returned record *)

\* C30: in every result analyze_component returns, the support level is
\* UNKNOWN exactly when the confidence is NONE, and the end of life is then
\* 'Cannot determine'; UNKNOWN is never paired with HIGH or MEDIUM, and no
\* known support level is paired with NONE.
C30_ResultConsistency ==
    (pc = "done" /\ IsSome(result)) =>
        LET r == Get(result)
        IN  /\ r.support_level = "UNKNOWN" <=> r.confidence = "NONE"
            /\ r.support_level = "UNKNOWN" => r.end_of_life = Text("Cannot determine")
            /\ ~(r.support_level = "UNKNOWN" /\ r.confidence \in {"HIGH", "MEDIUM"})
            /\ ~(r.support_level # "UNKNOWN" /\ r.confidence = "NONE")
            /\ r.support_level \in {"ACTIVELY_MAINTAINED", "NO_LONGER_MAINTAINED", "ABANDONED", "UNKNOWN"}
            /\ r.confidence \in {"HIGH", "MEDIUM", "NONE"}

\* a snapshot without a release date was classified, and the result
\* returned is UNKNOWN at confidence NONE
C30_UndatedClassified ==
    /\ pc = "done" /\ Returned
    /\ Get(result).support_level = "UNKNOWN"
    /\ Get(result).confidence = "NONE"

\* no source answered, and the initial record was returned
C30_InitialReturned == pc = "done" /\ ~Returned /\ result = Some(InitialResult)

\* a known support level was returned, at HIGH or MEDIUM confidence
C30_KnownReturned ==
    /\ pc = "done" /\ Returned
    /\ Get(result).support_level # "UNKNOWN"
    /\ Get(result).confidence \in {"HIGH", "MEDIUM"}

====
